---- MODULE Spec2Model ----
(***************************************************************************)
(* Model of the AI command routing of Pulse Studio: task classification    *)
(* (classifyTask), model selection (getModelForTask) and the retry/cache   *)
(* wrapper around the Backboard SDK (sendToModel) of lib/ai/backboard.ts.  *)
(* Texts are TLA+ strings; a character is a string of length one.          *)
(***************************************************************************)
EXTENDS Integers, Sequences, FiniteSets, TLC

\* ------------------------------------------------------------------------
\* Bounds of the model
\* ------------------------------------------------------------------------
MaxWords == 4
MaxCalls == 2
MaxFairCalls == 1
MaxMessages == 6
MaxSends == 2
MaxFairSends == 1
MaxHandleSendCalls == 3
MaxConcurrentAttempts == 1
MaxMockWords == 2
MaxPatterns == 3
MaxPanelActions == 1
MaxPanelSends == 1

\* ------------------------------------------------------------------------
\* Strings: String.prototype.toLowerCase / includes / split
\* ------------------------------------------------------------------------
UpperAlphabet == "ABCDEFGHIJKLMNOPQRSTUVWXYZ"
LowerAlphabet == "abcdefghijklmnopqrstuvwxyz"
DigitChars == {"0", "1", "2", "3", "4", "5", "6", "7", "8", "9"}
LowerChars == {SubSeq(LowerAlphabet, i, i) : i \in 1..26}
UpperChars == {SubSeq(UpperAlphabet, i, i) : i \in 1..26}
WordChars == LowerChars \cup UpperChars \cup DigitChars \cup {"_"}
SpaceChars == {" ", "\t", "\n"}
PunctuationChars ==
  {"\"", "'", "(", ")", ",", "-", ".", ":", "=", "&", "!", "?", "{", "}",
   "[", "]", "~", "#", "/"}
AllChars == WordChars \cup SpaceChars \cup PunctuationChars

SetMin(S) == CHOOSE i \in S : \A j \in S : i <= j
SetMax(S) == CHOOSE i \in S : \A j \in S : i >= j

\* the value a const is bound to: the one element of a singleton set
Only(S) == CHOOSE x \in S : TRUE

CharAt(s, i) == SubSeq(s, i, i)

LowerChar(c) ==
  IF c \in UpperChars
    THEN LET i == CHOOSE k \in 1..26 : SubSeq(UpperAlphabet, k, k) = c
         IN  SubSeq(LowerAlphabet, i, i)
    ELSE c

RECURSIVE toLowerCase(_)
toLowerCase(s) ==
  IF s = "" THEN ""
  ELSE Only({LowerChar(c) : c \in {Head(s)}}) \o toLowerCase(Tail(s))

includes(s, sub) ==
  \E i \in 1..(Len(s) - Len(sub) + 1) : SubSeq(s, i, i + Len(sub) - 1) = sub

\* s.split(sep).length for a separator of one character
SplitLength(s, sep) == 1 + Cardinality({i \in 1..Len(s) : CharAt(s, i) = sep})

\* ------------------------------------------------------------------------
\* Regular expressions: the subset of RegExp the source uses.  A pattern is
\* a sequence of nodes; MatchSeq(r, s, p) is the set of positions at which a
\* match of r that starts at position p of s can end (all backtracking
\* choices), so RegExp.prototype.test is the existence of a start position.
\* ------------------------------------------------------------------------
Lit(str) == [t |-> "lit", s |-> str]
AnyOf(strs) == [t |-> "any", s |-> strs]
Rep(cls, least) == [t |-> "rep", c |-> cls, min |-> least]
Alt(alts) == [t |-> "alt", a |-> alts]
Opt(r) == [t |-> "alt", a |-> <<r, <<>>>>]
Bol == [t |-> "bol"]
Eol == [t |-> "eol"]

CharClass(cls) ==
  CASE cls = "s" -> SpaceChars                                  \* \s
    [] cls = "w" -> WordChars                                   \* \w
    [] cls = "d" -> DigitChars                                  \* \d
    [] cls = "sep" -> SpaceChars \cup {"\"", ":"}                \* ["\s:]
    [] cls = "notquote" -> AllChars \ {"\""}                    \* [^"]
    [] cls = "id" -> LowerChars \cup UpperChars \cup DigitChars \cup {"-"}

StartsAt(s, p, str) ==
  /\ p + Len(str) - 1 <= Len(s)
  /\ SubSeq(s, p, p + Len(str) - 1) = str

RECURSIVE MatchSeq(_, _, _)
MatchNode(n, s, p) ==
  CASE n.t = "lit" -> IF StartsAt(s, p, n.s) THEN {p + Len(n.s)} ELSE {}
    [] n.t = "any" -> {p + Len(w) : w \in {v \in n.s : StartsAt(s, p, v)}}
    [] n.t = "rep" -> {q \in (p + n.min)..(Len(s) + 1) :
                         \A k \in p..(q - 1) : CharAt(s, k) \in CharClass(n.c)}
    [] n.t = "alt" -> UNION {MatchSeq(n.a[k], s, p) : k \in DOMAIN n.a}
    [] n.t = "bol" -> IF p = 1 THEN {p} ELSE {}
    [] n.t = "eol" -> IF p = Len(s) + 1 THEN {p} ELSE {}

MatchSeq(r, s, p) ==
  IF Len(r) = 0
    THEN {p}
    ELSE UNION {MatchSeq(Tail(r), s, q) : q \in MatchNode(Head(r), s, p)}

test(r, s) == \E p \in 1..(Len(s) + 1) : MatchSeq(r, s, p) # {}

anyTest(patterns, s) == \E i \in DOMAIN patterns : test(patterns[i], s)

\* ------------------------------------------------------------------------
\* Model provider configuration
\* ------------------------------------------------------------------------
TaskTypes == {"creative", "technical", "analytical", "fallback"}

MODEL_CONFIGS ==
  [creative   |-> [provider |-> "google", modelName |-> "gemini-2.5-flash",
                   description |-> "Google Gemini 2.5 Flash - Creative & musical tasks"],
   technical  |-> [provider |-> "openai", modelName |-> "gpt-4o",
                   description |-> "OpenAI GPT-4o - Technical & precise tasks"],
   analytical |-> [provider |-> "anthropic", modelName |-> "claude-sonnet-4-20250514",
                   description |-> "Anthropic Claude Sonnet 4 - Analysis & explanations"],
   fallback   |-> [provider |-> "openai", modelName |-> "gpt-4o-mini",
                   description |-> "OpenAI GPT-4o Mini - Fast fallback"]]

\* MODEL_CONFIGS is an object literal, so MODEL_CONFIGS[key] also finds the
\* properties every object inherits from Object.prototype (functions, hence
\* truthy); any other key yields undefined.
ObjectPrototypeKeys ==
  {"constructor", "toString", "toLocaleString", "valueOf", "hasOwnProperty",
   "isPrototypeOf", "propertyIsEnumerable", "__proto__"}

undefined == [undefined |-> TRUE]

Inherited(key) == [inheritedFromObjectPrototype |-> key]

PropertyOf(obj, key) ==
  IF key \in DOMAIN obj THEN obj[key]
  ELSE IF key \in ObjectPrototypeKeys THEN Inherited(key)
  ELSE undefined

FallbackConfig ==
  [provider |-> "openai", modelName |-> "gpt-4o-mini",
   description |-> "OpenAI GPT-4o Mini - Fast fallback"]

\* getModelForTask that always answers with the fallback model
getModelForTask_AlwaysFallback(taskType) ==
  FallbackConfig

getModelForTask(taskType) ==
  Only({IF config # undefined THEN config ELSE FallbackConfig :
          config \in {PropertyOf(MODEL_CONFIGS, taskType)}})

\* ------------------------------------------------------------------------
\* classifyTask
\* ------------------------------------------------------------------------
analyticalPatterns ==
  <<
    <<Lit("explain")>>,   \* /explain/
    <<Lit("what"), Rep("s", 1), AnyOf({"is", "are", "does"})>>,   \* /what\s+(is|are|does)/
    <<Lit("how"), Rep("s", 1), AnyOf({"do", "does", "can", "should"})>>,   \* /how\s+(do|does|can|should)/
    <<Lit("why"), Rep("s", 1), AnyOf({"is", "are", "does", "do"})>>,   \* /why\s+(is|are|does|do)/
    <<Lit("tell"), Rep("s", 1), Lit("me"), Rep("s", 1), Lit("about")>>,   \* /tell\s+me\s+about/
    <<Lit("analyze")>>,   \* /analyze/
    <<Lit("analyse")>>,   \* /analyse/
    <<Lit("feedback")>>,   \* /feedback/
    <<Lit("review")>>,   \* /review/
    <<Lit("critique")>>,   \* /critique/
    <<Lit("improve")>>,   \* /improve/
    <<Lit("better")>>,   \* /better/
    <<Lit("theory")>>,   \* /theory/
    <<Lit("teach")>>,   \* /teach/
    <<Lit("learn")>>,   \* /learn/
    <<Lit("understand")>>,   \* /understand/
    <<Lit("difference"), Rep("s", 1), Lit("between")>>,   \* /difference\s+between/
    <<Lit("compare")>>,   \* /compare/
    <<Lit("help"), Rep("s", 1), Lit("me"), Rep("s", 1), Lit("understand")>>   \* /help\s+me\s+understand/
  >>

creativePatterns ==
  <<
    <<Lit("make"), Rep("s", 1), Opt(<<Lit("a"), Rep("s", 1)>>), Opt(<<Rep("w", 1), Rep("s", 1)>>), AnyOf({"beat", "melody", "chord", "bass", "pattern", "music", "song", "track"})>>,   \* /make\s+(a\s+)?(\w+\s+)?(beat|melody|chord|bass|pattern|music|song|track)/
    <<Lit("create"), Rep("s", 1), Opt(<<Lit("a"), Rep("s", 1)>>), Opt(<<Rep("w", 1), Rep("s", 1)>>), AnyOf({"beat", "melody", "chord", "bass", "pattern", "music", "song", "track"})>>,   \* /create\s+(a\s+)?(\w+\s+)?(beat|melody|chord|bass|pattern|music|song|track)/
    <<Lit("generate"), Rep("s", 1), Opt(<<Lit("a"), Rep("s", 1)>>), Opt(<<Rep("w", 1), Rep("s", 1)>>), AnyOf({"beat", "melody", "music", "pattern"})>>,   \* /generate\s+(a\s+)?(\w+\s+)?(beat|melody|music|pattern)/
    <<Lit("write"), Rep("s", 1), Opt(<<Lit("a"), Rep("s", 1)>>), Opt(<<Rep("w", 1), Rep("s", 1)>>), AnyOf({"melody", "chord", "bass", "song"})>>,   \* /write\s+(a\s+)?(\w+\s+)?(melody|chord|bass|song)/
    <<Lit("compose"), Rep("s", 1), Opt(<<Lit("a"), Rep("s", 1)>>), Opt(<<Rep("w", 1), Rep("s", 1)>>), Alt(<<<<Lit("melody")>>, <<Lit("beat")>>, <<Lit("song")>>, <<Lit("piece")>>, <<>>>>)>>,   \* /compose\s+(a\s+)?(\w+\s+)?(melody|beat|song|piece)?/
    <<Lit("add"), Rep("s", 1), Opt(<<Lit("a"), Rep("s", 1)>>), Opt(<<Rep("w", 1), Rep("s", 1)>>), AnyOf({"melody", "chord", "piano", "bass", "lead", "pad", "synth"})>>,   \* /add\s+(a\s+)?(\w+\s+)?(melody|chord|piano|bass|lead|pad|synth)/
    <<Alt(<<<<Lit("hip"), Rep("s", 0), Lit("hop")>>, <<Lit("trap")>>, <<Lit("house")>>, <<Lit("edm")>>, <<Lit("jazz")>>, <<Lit("funk")>>, <<Lit("rock")>>, <<Lit("pop")>>, <<Lit("lofi")>>, <<Lit("rap")>>>>)>>,   \* /hip\s*hop|trap|house|edm|jazz|funk|rock|pop|lofi|rap/
    <<Alt(<<<<Lit("boom"), Rep("s", 0), Lit("bap")>>, <<Lit("drill")>>, <<Lit("phonk")>>, <<Lit("reggaeton")>>, <<Lit("r&b")>>, <<Lit("soul")>>>>)>>,   \* /boom\s*bap|drill|phonk|reggaeton|r&b|soul/
    <<AnyOf({"catchy", "groovy", "chill", "energetic", "dark", "bright", "sad", "happy", "upbeat"})>>,   \* /catchy|groovy|chill|energetic|dark|bright|sad|happy|upbeat/
    <<Lit("suggest")>>,   \* /suggest/
    <<AnyOf({"improvise", "freestyle", "jam"})>>,   \* /improvise|freestyle|jam/
    <<Lit("piano"), Rep("s", 1), AnyOf({"melody", "part", "line"})>>,   \* /piano\s+(melody|part|line)/
    <<Lit("drum"), Rep("s", 1), AnyOf({"beat", "pattern", "loop"})>>,   \* /drum\s+(beat|pattern|loop)/
    <<Lit("bass"), Rep("s", 1), AnyOf({"line", "pattern", "groove"})>>   \* /bass\s+(line|pattern|groove)/
  >>

technicalPatterns ==
  <<
    <<AnyOf({"set", "change", "adjust", "make"}), Rep("s", 1), Opt(<<Lit("the"), Rep("s", 1)>>), AnyOf({"bpm", "tempo"})>>,   \* /(set|change|adjust|make)\s+(the\s+)?(bpm|tempo)/
    <<Lit("bpm"), Rep("s", 1), AnyOf({"to", "="}), Rep("s", 0), Rep("d", 1)>>,   \* /bpm\s+(to|=)\s*\d+/
    <<Lit("tempo"), Rep("s", 1), AnyOf({"to", "="}), Rep("s", 0), Rep("d", 1)>>,   \* /tempo\s+(to|=)\s*\d+/
    <<Rep("d", 1), Rep("s", 0), Lit("bpm")>>,   \* /\d+\s*bpm/
    <<AnyOf({"increase", "decrease", "raise", "lower", "bump"}), Rep("s", 1), Opt(<<Lit("the"), Rep("s", 1)>>), AnyOf({"bpm", "tempo", "volume", "pan"})>>,   \* /(increase|decrease|raise|lower|bump)\s+(the\s+)?(bpm|tempo|volume|pan)/
    <<AnyOf({"bpm", "tempo", "volume", "pan"}), Rep("s", 1), AnyOf({"up", "down"})>>,   \* /(bpm|tempo|volume|pan)\s+(up|down)/
    <<Lit("by"), Rep("s", 1), Rep("d", 1), Rep("s", 0), Opt(<<Lit("bpm")>>)>>,   \* /by\s+\d+\s*(bpm)?/
    <<AnyOf({"faster", "slower"}), Rep("s", 0), Alt(<<<<Lit("tempo")>>, <<Lit("bpm")>>, <<>>>>)>>,   \* /(faster|slower)\s*(tempo|bpm)?/
    <<Lit("speed"), Rep("s", 1), AnyOf({"up", "down"})>>,   \* /speed\s+(up|down)/
    <<AnyOf({"double", "half", "halve"}), Rep("s", 1), Opt(<<Lit("the"), Rep("s", 1)>>), AnyOf({"tempo", "bpm", "speed"})>>,   \* /(double|half|halve)\s+(the\s+)?(tempo|bpm|speed)/
    <<Bol, AnyOf({"play", "stop", "pause", "record"}), Eol>>,   \* /^(play|stop|pause|record)$/
    <<Bol, Lit("play"), Eol>>,   \* /^play$/
    <<Bol, Lit("stop"), Eol>>,   \* /^stop$/
    <<AnyOf({"mute", "solo", "unmute"})>>,   \* /mute|solo|unmute/
    <<Lit("volume"), Rep("s", 1), AnyOf({"to", "up", "down"})>>,   \* /volume\s+(to|up|down)/
    <<Lit("pan"), Rep("s", 1), AnyOf({"to", "left", "right"})>>,   \* /pan\s+(to|left|right)/
    <<Lit("delete"), Rep("s", 1), Opt(<<Lit("the"), Rep("s", 1)>>), AnyOf({"pattern", "note", "clip", "track", "channel"})>>,   \* /delete\s+(the\s+)?(pattern|note|clip|track|channel)/
    <<Lit("remove"), Rep("s", 1), Opt(<<Lit("the"), Rep("s", 1)>>), AnyOf({"pattern", "note", "clip", "track", "channel"})>>,   \* /remove\s+(the\s+)?(pattern|note|clip|track|channel)/
    <<Lit("move"), Rep("s", 1), Opt(<<Lit("the"), Rep("s", 1)>>), AnyOf({"clip", "pattern", "note"})>>,   \* /move\s+(the\s+)?(clip|pattern|note)/
    <<Lit("copy"), Rep("s", 1), Opt(<<Lit("the"), Rep("s", 1)>>), AnyOf({"clip", "pattern", "note"})>>,   \* /copy\s+(the\s+)?(clip|pattern|note)/
    <<Lit("duplicate")>>,   \* /duplicate/
    <<Lit("resize")>>,   \* /resize/
    <<Lit("extend"), Rep("s", 1), Opt(<<Lit("the"), Rep("s", 1)>>), AnyOf({"melody", "pattern", "clip", "beat", "track"})>>,   \* /extend\s+(the\s+)?(melody|pattern|clip|beat|track)/
    <<Lit("shorten"), Rep("s", 1), Opt(<<Lit("the"), Rep("s", 1)>>), AnyOf({"melody", "pattern", "clip", "beat", "track"})>>,   \* /shorten\s+(the\s+)?(melody|pattern|clip|beat|track)/
    <<Lit("make"), Rep("s", 1), Alt(<<<<Lit("it")>>, <<Lit("the"), Rep("s", 1), Rep("w", 1)>>>>), Rep("s", 1), AnyOf({"longer", "shorter"})>>,   \* /make\s+(it|the\s+\w+)\s+(longer|shorter)/
    <<Rep("d", 1), Rep("s", 0), Lit("bar"), Opt(<<Lit("s")>>), Rep("s", 0), AnyOf({"longer", "shorter"})>>,   \* /\d+\s*bars?\s*(longer|shorter)/
    <<AnyOf({"longer", "shorter"}), Rep("s", 0), Lit("by"), Rep("s", 0), Rep("d", 1)>>,   \* /(longer|shorter)\s*by\s*\d+/
    <<Lit("set"), Rep("s", 1), Opt(<<Lit("the"), Rep("s", 1)>>), AnyOf({"loop", "position", "start", "end"})>>,   \* /set\s+(the\s+)?(loop|position|start|end)/
    <<Lit("loop"), Rep("s", 1), AnyOf({"from", "to", "at"})>>,   \* /loop\s+(from|to|at)/
    <<Lit("change"), Rep("s", 1), Opt(<<Lit("the"), Rep("s", 1)>>), AnyOf({"volume", "pan", "pitch", "key", "scale"})>>,   \* /change\s+(the\s+)?(volume|pan|pitch|key|scale)/
    <<Lit("adjust"), Rep("s", 1), Opt(<<Lit("the"), Rep("s", 1)>>), AnyOf({"volume", "pan", "pitch", "key", "scale"})>>,   \* /adjust\s+(the\s+)?(volume|pan|pitch|key|scale)/
    <<Lit("modify")>>,   \* /modify/
    <<Lit("edit")>>,   \* /edit/
    <<Lit("update")>>,   \* /update/
    <<Lit("toggle")>>,   \* /toggle/
    <<Lit("clear"), Rep("s", 1), Opt(<<Lit("the"), Rep("s", 1)>>), AnyOf({"pattern", "clip", "track", "all"})>>,   \* /clear\s+(the\s+)?(pattern|clip|track|all)/
    <<AnyOf({"undo", "redo"})>>,   \* /undo|redo/
    <<Lit("export")>>,   \* /export/
    <<AnyOf({"save", "load"})>>,   \* /save|load/
    <<Lit("rename")>>,   \* /rename/
    <<Lit("quantize")>>,   \* /quantize/
    <<Lit("snap")>>   \* /snap/
  >>


hasNumber == <<Rep("d", 1)>>
parameterWords == <<AnyOf({"bpm", "tempo", "volume", "pan", "by", "to", "="})>>

\* classifyTask with the technical patterns tried before the creative ones
classifyTask_TechnicalFirst(input0) ==
  Only({
      IF test(hasNumber, input) THEN "technical"
      ELSE IF anyTest(analyticalPatterns, input) THEN "analytical"
      ELSE IF anyTest(technicalPatterns, input) THEN "technical"
      ELSE IF anyTest(creativePatterns, input) THEN "creative"
      ELSE IF SplitLength(input, " ") <= 3 THEN "technical"
      ELSE "creative" : input \in {toLowerCase(input0)}})

\* classifyTask without the loop over the technical patterns
classifyTask_NoTechnicalLoop(input0) ==
  Only({
      IF test(hasNumber, input) THEN "technical"
      ELSE IF anyTest(analyticalPatterns, input) THEN "analytical"
      ELSE IF anyTest(creativePatterns, input) THEN "creative"
      ELSE IF SplitLength(input, " ") <= 3 THEN "technical"
      ELSE "creative" : input \in {toLowerCase(input0)}})

\* classifyTask on the input as typed, without toLowerCase
classifyTask_CaseSensitive(input0) ==
  Only({
      IF test(hasNumber, input) THEN "technical"
      ELSE IF anyTest(analyticalPatterns, input) THEN "analytical"
      ELSE IF anyTest(creativePatterns, input) THEN "creative"
      ELSE IF anyTest(technicalPatterns, input) THEN "technical"
      ELSE IF test(hasNumber, input) /\ test(parameterWords, input) THEN "technical"
      ELSE IF SplitLength(input, " ") <= 3 THEN "technical"
      ELSE "creative" : input \in {input0}})

\* classifyTask without the number priority at its top
classifyTask_NoNumberPriority(input0) ==
  Only({
      IF anyTest(analyticalPatterns, input) THEN "analytical"
      ELSE IF anyTest(creativePatterns, input) THEN "creative"
      ELSE IF anyTest(technicalPatterns, input) THEN "technical"
      ELSE IF test(hasNumber, input) /\ test(parameterWords, input) THEN "technical"
      ELSE IF SplitLength(input, " ") <= 3 THEN "technical"
      ELSE "creative" : input \in {toLowerCase(input0)}})

\* const input = userInput.toLowerCase() is bound once
classifyTask(input0) ==
  Only({
      IF test(hasNumber, input) THEN "technical"
      ELSE IF anyTest(analyticalPatterns, input) THEN "analytical"
      ELSE IF anyTest(creativePatterns, input) THEN "creative"
      ELSE IF anyTest(technicalPatterns, input) THEN "technical"
      ELSE IF test(hasNumber, input) /\ test(parameterWords, input) THEN "technical"
      ELSE IF SplitLength(input, " ") <= 3 THEN "technical"
      ELSE "creative" : input \in {toLowerCase(input0)}})

\* ------------------------------------------------------------------------
\* hashContext: 32-bit string hash, printed in base 16.  The running hash is
\* kept as two 16-bit limbs <<high, low>> so that (hash << 5) - hash + char
\* followed by hash & hash (ToInt32) is computed modulo 2^32.
\* ------------------------------------------------------------------------
CharCode(c) ==
  IF c \in UpperChars
    THEN 64 + (CHOOSE k \in 1..26 : SubSeq(UpperAlphabet, k, k) = c)
  ELSE IF c \in LowerChars
    THEN 96 + (CHOOSE k \in 1..26 : SubSeq(LowerAlphabet, k, k) = c)
  ELSE IF c \in DigitChars
    THEN 47 + (CHOOSE k \in 1..10 : SubSeq("0123456789", k, k) = c)
  ELSE CASE c = " " -> 32
         [] c = "\n" -> 10
         [] c = "\"" -> 34
         [] c = "(" -> 40
         [] c = ")" -> 41
         [] c = "," -> 44
         [] c = "-" -> 45
         [] c = ":" -> 58

HashStep(limbs, code) ==
  LET low == 31 * limbs[2] + code
      high == 31 * limbs[1] + (low \div 65536)
  IN  <<high % 65536, low % 65536>>

\* for (let i = 0; i < context.length; i++), from index i (1-based) on
RECURSIVE HashLimbs(_, _, _)
HashLimbs(context, i, limbs) ==
  IF i > Len(context) THEN limbs
  ELSE Only({HashLimbs(context, i + 1, hash) :
               hash \in {HashStep(limbs, char) :
                           char \in {CharCode(c) : c \in {CharAt(context, i)}}}})

ToInt32(limbs) ==
  IF limbs[1] >= 32768
    THEN (limbs[1] - 65536) * 65536 + limbs[2]
    ELSE limbs[1] * 65536 + limbs[2]

RECURSIVE Hex(_)
Hex(n) ==
  LET digit == SubSeq("0123456789abcdef", (n % 16) + 1, (n % 16) + 1)
  IN  IF n < 16 THEN digit ELSE Hex(n \div 16) \o digit

NumberToString16(n) == IF n < 0 THEN "-" \o Hex(0 - n) ELSE Hex(n)

hashContext(context) ==
  Only({NumberToString16(hash) :
          hash \in {ToInt32(limbs) :
                      limbs \in {HashLimbs(text, 1, <<0, 0>>) : text \in {context}}}})

\* The default system prompt is a long literal; the model keeps its opening
\* words (it holds no track number, start tick or pattern list).
DEFAULT_SYSTEM_PROMPT == "You are a DAW assistant"

\* ------------------------------------------------------------------------
\* JavaScript values of a parsed reply.  Every value is tagged with its
\* type; objects carry a record, arrays a sequence.
\* ------------------------------------------------------------------------
JUndefined == [type |-> "undefined"]
JNull == [type |-> "null"]
JNum(n) == [type |-> "number", v |-> n]
JDec(numeral) == [type |-> "number", dec |-> numeral]
JStr(str) == [type |-> "string", v |-> str]
JArr(elems) == [type |-> "array", v |-> elems]
JObj(fields) == [type |-> "object", v |-> fields]
NoFields == [k \in {} |-> JUndefined]

\* value.key for a key that is not inherited from a prototype
Prop(value, key) ==
  IF value.type = "object" /\ key \in DOMAIN value.v THEN value.v[key]
  ELSE JUndefined

Truthy(value) ==
  CASE value.type \in {"undefined", "null"} -> FALSE
    [] value.type = "string" -> value.v # ""
    [] value.type = "number" -> value # JNum(0)
    [] value.type = "boolean" -> value.v
    [] OTHER -> TRUE

IsArray(value) == value.type = "array"

\* a || b
OrElse(a, b) == IF Truthy(a) THEN a ELSE b

\* ------------------------------------------------------------------------
\* Reply texts of the model and JSON.parse on them
\* ------------------------------------------------------------------------
BatchReply == "{\"actions\":[{\"action\":\"play\",\"parameters\":{}}],\"confidence\":0.9,\"reasoning\":\"ok\"}"
\* A grave accent cannot be written in a string here; "~" stands for it.
Fence == "~~~"
FencedBatchReply == Fence \o "json\n" \o BatchReply \o "\n" \o Fence
BareActionReply == "{\"actions\":[{\"action\":\"play\"},7]}"
LegacyReply == "{\"action\":\"setBpm\",\"parameters\":{\"bpm\":120},\"confidence\":0.8}"
LegacyNoActionReply == "{\"confidence\":0.5}"
ActionsNotArrayReply == "{\"actions\":\"none\",\"action\":\"stop\"}"
NullReply == "null"
ScalarReply == "42"
ProseReply == "Sure, here is a beat"
FencedProseReply == Fence \o "\n" \o "no beat today" \o "\n" \o Fence
EmptyReply == ""

ReplyTexts ==
  {BatchReply, FencedBatchReply, BareActionReply, LegacyReply,
   LegacyNoActionReply, ActionsNotArrayReply, NullReply, ScalarReply,
   ProseReply, FencedProseReply, EmptyReply}

SyntaxError == [type |-> "SyntaxError"]

JSONParse(text) ==
  CASE text = BatchReply ->
         JObj([actions |-> JArr(<<JObj([action |-> JStr("play"),
                                        parameters |-> JObj(NoFields)])>>),
               confidence |-> JDec("0.9"),
               reasoning |-> JStr("ok")])
    [] text = BareActionReply ->
         JObj([actions |-> JArr(<<JObj([action |-> JStr("play")]), JNum(7)>>)])
    [] text = LegacyReply ->
         JObj([action |-> JStr("setBpm"),
               parameters |-> JObj([bpm |-> JNum(120)]),
               confidence |-> JDec("0.8")])
    [] text = LegacyNoActionReply -> JObj([confidence |-> JDec("0.5")])
    [] text = ActionsNotArrayReply ->
         JObj([actions |-> JStr("none"), action |-> JStr("stop")])
    [] text = NullReply -> JNull
    [] text = ScalarReply -> JNum(42)
    [] OTHER -> SyntaxError

\* content.replace(fence json, newline optional) and content.replace(fence,
\* newline optional), both global
RECURSIVE RemoveFences(_, _)
RemoveFrom(content, fence, first) ==
  Only({SubSeq(content, 1, first - 1)
          \o RemoveFences(IF StartsAt(rest, 1, "\n")
                            THEN SubSeq(rest, 2, Len(rest))
                            ELSE rest,
                          fence) :
          rest \in {SubSeq(content, first + Len(fence), Len(content))}})

RemoveFences(content, fence) ==
  Only({IF found = {} THEN text ELSE RemoveFrom(text, fence, SetMin(found)) :
          <<text, found>> \in
            {<<c, {i \in 1..Len(c) : StartsAt(c, i, fence)}>> : c \in {content}}})

trim(str) ==
  Only({IF inked = {} THEN "" ELSE SubSeq(text, SetMin(inked), SetMax(inked)) :
          <<text, inked>> \in
            {<<t, {i \in 1..Len(t) : CharAt(t, i) \notin SpaceChars}>> : t \in {str}}})

StripMarkdown(content) ==
  trim(RemoveFences(RemoveFences(content, Fence \o "json"), Fence))

\* ------------------------------------------------------------------------
\* String.prototype.match with one capture group, parseInt, and counting
\* the matches of a global RegExp.exec loop
\* ------------------------------------------------------------------------
MatchStarts(r, s, from) == {p \in from..(Len(s) + 1) : MatchSeq(r, s, p) # {}}

\* the text of the greedy group that follows the prefix in the leftmost
\* match of prefix \o group, or "" when there is no match (null)
CaptureFrom(prefix, group, s, p) ==
  Only({SubSeq(s, SetMax({q \in MatchSeq(prefix, s, p) :
                           last \in MatchSeq(group, s, q)}), last - 1) :
          last \in {SetMax(MatchSeq(prefix \o group, s, p))}})

CaptureAfter(prefix, group, s) ==
  Only({IF starts = {} THEN ""
        ELSE Only({CaptureFrom(prefix, group, s, p) : p \in {SetMin(starts)}}) :
          starts \in {MatchStarts(prefix \o group, s, 1)}})

RECURSIVE parseInt(_)
parseInt(digits) ==
  IF digits = "" THEN 0
  ELSE 10 * parseInt(SubSeq(digits, 1, Len(digits) - 1))
         + (CharCode(CharAt(digits, Len(digits))) - 48)

RECURSIVE CountMatches(_, _, _)
CountMatches(r, s, from) ==
  LET starts == MatchStarts(r, s, from)
  IN  IF starts = {} THEN 0
      ELSE 1 + CountMatches(r, s, SetMax(MatchSeq(r, s, SetMin(starts))))

toUpperCase1(c) ==
  IF c \in LowerChars
    THEN LET i == CHOOSE k \in 1..26 : SubSeq(LowerAlphabet, k, k) = c
         IN  SubSeq(UpperAlphabet, i, i)
    ELSE c

RECURSIVE NumberToString(_)
NumberToString(n) ==
  LET digit == SubSeq("0123456789", (n % 10) + 1, (n % 10) + 1)
  IN  IF n < 10 THEN digit ELSE NumberToString(n \div 10) \o digit

\* ------------------------------------------------------------------------
\* mockBackboardResponse
\* ------------------------------------------------------------------------
BatchResponse(actions, confidence, reasoning) ==
  JObj([action |-> JStr("__batch__"),
        parameters |-> JObj([actions |-> JArr(actions)]),
        confidence |-> confidence,
        reasoning |-> reasoning])

Command(name, parameters) ==
  JObj([action |-> JStr(name), parameters |-> JObj(parameters)])

wrapInBatch(action, parameters, confidence, reasoning) ==
  BatchResponse(<<Command(action, parameters)>>, JDec(confidence), JStr(reasoning))

Note(pitch, startTick, durationTick, velocity) ==
  JObj([pitch |-> JNum(pitch), startTick |-> JNum(startTick),
        durationTick |-> JNum(durationTick), velocity |-> JNum(velocity)])

noteVariations ==
  << \* Variation 1: Bass line
     <<Note(36, 0, 96, 100), Note(36, 192, 48, 80), Note(38, 288, 48, 90),
       Note(41, 384, 96, 100), Note(36, 576, 48, 85), Note(43, 672, 96, 95)>>,
     \* Variation 2: Melodic pattern
     <<Note(60, 0, 48, 90), Note(62, 96, 48, 85), Note(64, 192, 96, 100),
       Note(62, 384, 48, 80), Note(60, 480, 48, 85), Note(57, 576, 96, 95)>>,
     \* Variation 3: Rhythmic hits
     <<Note(48, 0, 24, 100), Note(48, 96, 24, 70), Note(48, 192, 24, 100),
       Note(48, 288, 24, 70), Note(48, 384, 24, 100), Note(48, 480, 24, 70),
       Note(48, 576, 24, 100), Note(48, 672, 24, 70)>> >>

trackRegex == <<Lit("track ")>>                            \* /track (\d+)/i
tickRegex == <<Lit("startTick"), Rep("sep", 1)>>           \* /startTick["\s:]+(\d+)/
digitsGroup == <<Rep("d", 1)>>                             \* (\d+)
patternRegex ==               \* /"([^"]+)" \((\d+) bars, ID: ([a-zA-Z0-9-]+)\)/g
  <<Lit("\""), Rep("notquote", 1), Lit("\" ("), Rep("d", 1),
    Lit(" bars, ID: "), Rep("id", 1), Lit(")")>>

\* SuggestedTrackIndex that takes the track number as the index
SuggestedTrackIndex_OneBased(systemPrompt) ==
  Only({IF trackMatch # "" THEN parseInt(trackMatch) ELSE 0 :
          trackMatch \in {Only({CaptureAfter(trackRegex, digitsGroup, lower) :
                                  lower \in {toLowerCase(systemPrompt)}})}})

SuggestedTrackIndex(systemPrompt) ==
  Only({IF trackMatch # "" THEN parseInt(trackMatch) - 1 ELSE 0 :
          trackMatch \in {Only({CaptureAfter(trackRegex, digitsGroup, lower) :
                                  lower \in {toLowerCase(systemPrompt)}})}})

SuggestedStartTick(systemPrompt) ==
  Only({IF tickMatch # "" THEN parseInt(tickMatch) ELSE 384 :
          tickMatch \in {CaptureAfter(tickRegex, digitsGroup, systemPrompt)}})

\* AvailablePatternCount that finds no pattern in the prompt
AvailablePatternCount_None(systemPrompt) == 0

AvailablePatternCount(systemPrompt) == CountMatches(patternRegex, systemPrompt, 1)

MockSuggestion(systemPrompt) ==
  LET trackIndex == SuggestedTrackIndex(systemPrompt)
      startTick == SuggestedStartTick(systemPrompt)
      newPatternName == "AI Generated Beat"
      durationBars == 2
      ticksPerBar == 384
      variationIndex == AvailablePatternCount(systemPrompt) % Len(noteVariations)
      generatedNotes == noteVariations[variationIndex + 1]
  IN  BatchResponse(
        <<Command("addPattern",
                  [name |-> JStr(newPatternName),
                   lengthInSteps |-> JNum(durationBars * 16)]),
          Command("addNoteSequence",
                  [patternId |-> JStr("__NEW_PATTERN__"),
                   notes |-> JArr(generatedNotes)]),
          Command("addClip",
                  [patternId |-> JStr("__NEW_PATTERN__"),
                   trackIndex |-> JNum(trackIndex),
                   startTick |-> JNum(startTick),
                   durationTick |-> JNum(durationBars * ticksPerBar)])>>,
        JDec("0.9"),
        JStr("Creating \"" \o newPatternName \o "\" with fresh notes just for you!"))

Sample(subcategory, trackIndex, tick) ==
  Command("addAudioSample",
          [category |-> JStr("drums"), subcategory |-> JStr(subcategory),
           trackIndex |-> JNum(trackIndex), startTick |-> JNum(tick)])

kickTicks == <<0, 144, 384, 528, 768, 912, 1152, 1296>>
snareTicks == <<96, 288, 480, 672, 864, 1056, 1248, 1440>>
\* hihatTicks with the bar line after the fourth bar included
hihatTicks_Inclusive == [i \in 1..((1536 \div 48) + 1) |-> (i - 1) * 48]

\* for (let tick = 0; tick < 1536; tick += 48)
hihatTicks == [i \in 1..((1536 + 47) \div 48) |-> (i - 1) * 48]

MockBeat ==
  BatchResponse(
    <<Command("setBpm", [bpm |-> JNum(90)])>>
      \o [i \in DOMAIN kickTicks |-> Sample("kick", 0, kickTicks[i])]
      \o [i \in DOMAIN snareTicks |-> Sample("snare", 1, snareTicks[i])]
      \o [i \in DOMAIN hihatTicks |-> Sample("hihat", 2, hihatTicks[i])],
    JDec("0.9"),
    JStr("Creating a 4-bar boom-bap beat: kicks on 1 and 2-and, snares on 2 and 4, 8th note hi-hats throughout"))

instruments == <<"kick", "snare", "hihat", "clap", "tom", "cymbal">>

MockAddPattern(lowerText) ==
  LET hits == {i \in DOMAIN instruments : includes(lowerText, instruments[i])}
      found == IF hits = {} THEN "" ELSE instruments[SetMin(hits)]
  IN  wrapInBatch("addPattern",
        [name |-> JStr(IF found # ""
                         THEN toUpperCase1(Head(found)) \o Tail(found) \o " Pattern"
                         ELSE "New Pattern"),
         lengthInSteps |-> JNum(16)],
        "0.9",
        "Creating a new pattern" \o (IF found # "" THEN " for " \o found ELSE ""))

MockSetBpm(text) ==
  Only({wrapInBatch("setBpm", [bpm |-> JNum(bpm)], "0.95",
                    "Setting tempo to " \o NumberToString(bpm) \o " BPM") :
          bpm \in {IF match # "" THEN parseInt(match) ELSE 120 :
                     match \in {CaptureAfter(<<>>, digitsGroup, text)}}})

MockResponse(text, lowerText, systemPrompt) ==
      IF includes(lowerText, "suggest")
           /\ (includes(lowerText, "clip") \/ includes(lowerText, "next"))
        THEN MockSuggestion(systemPrompt)
      ELSE IF includes(lowerText, "beat")
           /\ (includes(lowerText, "make") \/ includes(lowerText, "create"))
        THEN MockBeat
      ELSE IF includes(lowerText, "pattern")
           /\ (includes(lowerText, "add") \/ includes(lowerText, "create"))
        THEN MockAddPattern(lowerText)
      ELSE IF includes(lowerText, "bpm") \/ includes(lowerText, "tempo")
        THEN MockSetBpm(text)
      ELSE IF test(<<Bol, AnyOf({"play", "start"})>>, lowerText)
           \/ includes(lowerText, "play it")
        THEN wrapInBatch("play", NoFields, "1.0", "Starting playback")
      ELSE IF test(<<Bol, Lit("stop")>>, lowerText)
        THEN wrapInBatch("stop", NoFields, "1.0", "Stopping playback")
      ELSE IF includes(lowerText, "note")
        THEN wrapInBatch("addNote",
               [patternId |-> JStr("current"), pitch |-> JNum(60),
                startTick |-> JNum(0), durationTick |-> JNum(96),
                velocity |-> JNum(100)],
               "0.7", "Adding a note to the current pattern")
      ELSE wrapInBatch("clarificationNeeded",
             [message |-> JStr("I understand you want to \"" \o text
                 \o "\", but I'm not sure how to help with that. Try commands like \"make a beat\", \"add a kick pattern\", \"set BPM to 128\", or \"play\"."),
              suggestedOptions |-> JArr(<<JStr("Make a beat"), JStr("Add a pattern"),
                                         JStr("Set BPM"), JStr("Play/Stop")>>)],
             "0.1", "Command not recognized")

mockBackboardResponse(text, model, systemPrompt) ==
  Only({MockResponse(text, lowerText, systemPrompt) : lowerText \in {toLowerCase(text)}})

\* ------------------------------------------------------------------------
\* sendToModel: constants, the SDK's possible answers, and the pure parts of
\* the retry loop
\* ------------------------------------------------------------------------
MAX_RETRIES == 2
RETRY_DELAY_MS == 1000
USE_MOCK == FALSE

\* null for the cached ids and the context hash
Null == ""

EffectiveSystemPrompt(systemPrompt) ==
  IF systemPrompt # "" THEN systemPrompt ELSE DEFAULT_SYSTEM_PROMPT

\* What a rejected SDK promise carries: an Error with a message, or a value
\* that is not an Error instance.
Error(msg) == [isError |-> TRUE, message |-> msg]
NoError == [isError |-> FALSE, message |-> ""]

ErrorMessages ==
  {"network down", "HTTP 401 Unauthorized", "HTTP 403 Forbidden",
   "HTTP 429 Too Many Requests", "HTTP 429 after 401"}

Rejections ==
  {Error(msg) : msg \in ErrorMessages}
    \cup {[isError |-> FALSE, message |-> "HTTP 401 Unauthorized"]}

FailedContents == {"model overloaded", "quota exceeded 429"}

MessageResponses ==
  {[status |-> "COMPLETED", content |-> reply] : reply \in ReplyTexts}
    \cup {[status |-> "FAILED", content |-> reason] : reason \in FailedContents}

AssistantIdOf(n) == "asst_" \o NumberToString(n)
ThreadIdOf(n) == "thread_" \o NumberToString(n)

\* the argument of backboard.addMessage
AddMessageRequest(threadId, text) ==
  Only({[threadId |-> threadId,
         content |-> text,
         llm_provider |-> modelConfig.provider,
         model_name |-> modelConfig.modelName,
         stream |-> FALSE] :
          modelConfig \in {getModelForTask(taskType) :
                             taskType \in {classifyTask(text)}}})

\* the inner try/catch: strip the markdown fences, JSON.parse, wrap
UnknownCommand(text, content) ==
  JObj([action |-> JStr("__batch__"),
        parameters |-> JObj([actions |-> JArr(<<
          Command("unknown",
                  [originalText |-> JStr(text),
                   reason |-> JStr("Failed to parse AI response"),
                   rawResponse |-> JStr(content)])>>)])])

ParseContent(text, content, parsed) ==
      IF parsed.type \in {"SyntaxError", "null"}
        THEN UnknownCommand(text, content)
      ELSE IF Truthy(Prop(parsed, "actions")) /\ IsArray(Prop(parsed, "actions"))
        THEN JObj([action |-> JStr("__batch__"),
                   parameters |-> JObj([actions |-> Prop(parsed, "actions"),
                                        sampleChoices |-> Prop(parsed, "sampleChoices")]),
                   confidence |-> Prop(parsed, "confidence"),
                   reasoning |-> Prop(parsed, "reasoning")])
      ELSE JObj([action |-> JStr("__batch__"),
                 parameters |-> JObj([actions |-> JArr(<<
                   JObj([action |-> OrElse(Prop(parsed, "action"), JStr("unknown")),
                         parameters |-> OrElse(Prop(parsed, "parameters"), JObj(NoFields))])>>)]),
                 confidence |-> Prop(parsed, "confidence"),
                 reasoning |-> Prop(parsed, "reasoning")])

ParseReply(text, responseContent) ==
  Only({ParseContent(text, content, JSONParse(content)) :
          content \in {StripMarkdown(responseContent)}})

\* ------------------------------------------------------------------------
\* Inputs
\* ------------------------------------------------------------------------
Vocabulary == {"make", "a", "Trap", "beat", "better", "mute", "2", ""}

RECURSIVE Sentences(_)
Sentences(n) ==
  IF n = 1 THEN Vocabulary
  ELSE LET shorter == Sentences(n - 1)
       IN  shorter \cup {s \o " " \o w : s \in shorter, w \in Vocabulary}

UserInputs == Sentences(MaxWords)

LookupKeys == TaskTypes \cup {"constructor", "toString", "gemini", ""}

NoConfig == [provider |-> "", modelName |-> "", description |-> ""]

Texts == {"make a Trap beat", "set bpm to 128", "test"}
Models == {"gemini", "fallback"}
\* "" is an absent system prompt; "Aa" and "BB" have the same hashContext
SystemPrompts == {"", "Aa", "BB"}

ChatMessage(i) ==
  [from |-> IF i % 2 = 1 THEN "user" ELSE "agent",
   text |-> "message " \o NumberToString(i)]
ChatLog(n) == [i \in 1..n |-> ChatMessage(i)]
ChatLogs == {ChatLog(0), ChatLog(MaxMessages)}

\* messages.slice(-count)
SliceLast(messages, count) ==
  SubSeq(messages, IF Len(messages) > count THEN Len(messages) - count + 1 ELSE 1,
         Len(messages))

Calls == {1, 2}
SequentialCalls == {1}

NoOutcome == [kind |-> "none", response |-> JUndefined, error |-> ""]
Returned(response) == [kind |-> "returned", response |-> response, error |-> ""]
Thrown(msg) == [kind |-> "thrown", response |-> JUndefined, error |-> msg]

\* no answer of backboard.addMessage yet
NoResponse == [status |-> "", content |-> ""]

IdleCall ==
  [pc |-> "idle", caller |-> "", text |-> "", model |-> "",
   messages |-> <<>>, conversationHistory |-> <<>>, systemPrompt |-> "", attempt |-> 0,
   assistantId |-> Null, threadId |-> Null, lastError |-> NoError,
   requests |-> <<>>, delays |-> <<>>, apiSucceeded |-> FALSE,
   response |-> NoResponse, outcome |-> NoOutcome, testConnection |-> "none"]

\* ------------------------------------------------------------------------
\* The chat panel: what the user types, what /api/chat answers and what the
\* executors report. ChatPanel exists twice, in ChatPanel.tsx and in
\* DockingLayout.tsx.
\* ------------------------------------------------------------------------
Components == {"ChatPanel.tsx", "DockingLayout.tsx"}

InputTexts == {"", "  ", " mute 2 "}

Sends == 1..MaxSends

Message(from, text, status) == [from |-> from, text |-> text, status |-> status]

JBool(b) == [type |-> "boolean", v |-> b]

ModelInfo ==
  JObj([taskType |-> JStr("technical"), provider |-> JStr("openai"),
        model |-> JStr("gpt-4o")])

PlayBatch == BatchResponse(<<Command("play", NoFields)>>, JDec("0.9"), JStr("ok"))

\* JSON bodies of a response with an OK status
SuccessBody(data) == JObj([success |-> JBool(TRUE), data |-> JObj(data)])

ApiResponses ==
  {JObj([success |-> JBool(FALSE), error |-> JStr("Backboard API key not configured")]),
   JObj([success |-> JBool(FALSE)]),
   JNull,
   JObj([success |-> JBool(TRUE)]),
   SuccessBody([commandResult |-> PlayBatch]),
   SuccessBody([commandResult |-> PlayBatch, modelInfo |-> ModelInfo]),
   SuccessBody([commandResult |-> JObj([action |-> JStr("__batch__")])]),
   SuccessBody([commandResult |-> Command("play", NoFields), modelInfo |-> ModelInfo]),
   SuccessBody([message |-> JStr("Hello")]),
   SuccessBody(NoFields)}

\* JSON bodies of a response with another status
ErrorBodies == {JObj([error |-> JStr("Rate limited")]), JObj(NoFields), JNull}

HttpErrorStatus == 500

\* what executeBatch resolves to
BatchResult(success, undoGroupId, successCount) ==
  JObj([success |-> JBool(success), message |-> JStr("batch report"),
        undoGroupId |-> undoGroupId, successCount |-> JNum(successCount)])

BatchResults ==
  {BatchResult(TRUE, JStr("group-1"), 1),
   BatchResult(TRUE, JUndefined, 1),
   BatchResult(FALSE, JStr("group-2"), 1),
   BatchResult(FALSE, JUndefined, 0)}

\* what executeCommand resolves to
CommandResults ==
  {JObj([success |-> JBool(TRUE), message |-> JStr("done"),
         data |-> JObj([commandId |-> JStr("cmd-1")])]),
   JObj([success |-> JBool(TRUE), message |-> JStr("done")]),
   JObj([success |-> JBool(FALSE), message |-> JStr("no such track")])}

\* what a rejected promise or a throw carries: an Error or something else;
\* a TypeError is an Error too
TypeError(msg) == [isError |-> TRUE, message |-> msg, isTypeError |-> TRUE]

FetchRejections == {TypeError("Failed to fetch")}

Failures == {Error("out of memory"), [isError |-> FALSE, message |-> "boom"]}

\* one invocation of handleSend that passed the guard: which call it was, the
\* messages of its closure, its locals and what it has done so far (the
\* selected model, which the request body carries too, is left out)
IdleSend ==
  [pc |-> "idle", call |-> 0, userMessage |-> "", messages |-> <<>>,
   lastBefore |-> Null, requests |-> <<>>, modelInfo |-> JUndefined,
   commandResult |-> JUndefined, executed |-> <<>>, result |-> JUndefined,
   failure |-> "", toast |-> Null]

\* ------------------------------------------------------------------------
\* State
\* ------------------------------------------------------------------------
VARIABLES
  userInput, taskType, modelConfig, routePc,       \* classification and routing
  apiKey,                                          \* BACKBOARD_API_KEY is set
  cachedAssistantId, cachedThreadId, cachedContextHash,
  assistants, threads,                             \* created on the Backboard side
  calls,                                           \* sendToModel invocations
  started, promptsUsed, threadsUsed,               \* history of the run
  component,                                       \* the mounted ChatPanel
  inputText,                                       \* useState('') of the panel
  chatMessages, isPending, lastAICommandId,        \* the chat slice of the store
  sends, handleSendCalls,                          \* handleSend invocations
  panelActions                                     \* clicks on undo and clear

routingVars == <<userInput, taskType, modelConfig, routePc>>
cacheVars == <<cachedAssistantId, cachedThreadId, cachedContextHash>>
sdkVars == <<assistants, threads>>
runVars == <<started, promptsUsed, threadsUsed>>
backboardVars == <<apiKey, cacheVars, sdkVars, calls, runVars>>
chatVars == <<component, inputText, chatMessages, isPending, lastAICommandId,
              sends, handleSendCalls, panelActions>>
vars == <<routingVars, backboardVars, chatVars>>

\* no chat panel in use
ChatIdle ==
  /\ component = "ChatPanel.tsx"
  /\ inputText = ""
  /\ chatMessages = <<>>
  /\ isPending = FALSE
  /\ lastAICommandId = Null
  /\ sends = [s \in Sends |-> IdleSend]
  /\ handleSendCalls = 0
  /\ panelActions = <<>>

\* ------------------------------------------------------------------------
\* Classification and routing of one text (SpecRouting)
\* ------------------------------------------------------------------------
BackboardIdle ==
  /\ apiKey = TRUE
  /\ cachedAssistantId = Null
  /\ cachedThreadId = Null
  /\ cachedContextHash = Null
  /\ assistants = <<>>
  /\ threads = <<>>
  /\ calls = [c \in Calls |-> IdleCall]
  /\ started = 0
  /\ promptsUsed = {}
  /\ threadsUsed = {}

\* Either a text is about to be classified and routed as sendToModel does,
\* or a caller is about to ask getModelForTask for the configuration of a key.
InitRouting ==
  /\ modelConfig = NoConfig
  /\ \/ /\ routePc = "classify"
        /\ userInput \in UserInputs
        /\ taskType = ""
     \/ /\ routePc = "lookup"
        /\ userInput = ""
        /\ taskType \in LookupKeys
  /\ BackboardIdle
  /\ ChatIdle

ClassifyStep ==
  /\ routePc = "classify"
  /\ taskType' = classifyTask(userInput)
  /\ routePc' = "select"
  /\ UNCHANGED <<userInput, modelConfig, backboardVars, chatVars>>

SelectModelStep ==
  /\ routePc = "select"
  /\ modelConfig' = getModelForTask(taskType)
  /\ routePc' = "routed"
  /\ UNCHANGED <<userInput, taskType, backboardVars, chatVars>>

LookupStep ==
  /\ routePc = "lookup"
  /\ modelConfig' = getModelForTask(taskType)
  /\ routePc' = "found"
  /\ UNCHANGED <<userInput, taskType, backboardVars, chatVars>>

NextRouting ==
  \/ ClassifyStep
  \/ SelectModelStep
  \/ LookupStep

SpecRouting == InitRouting /\ [][NextRouting]_vars

\* ------------------------------------------------------------------------
\* sendToModel and testConnection (Spec): one invocation at a time; every
\* await of an SDK call is a step of its own.
\* ------------------------------------------------------------------------
Init ==
  /\ userInput = ""
  /\ taskType = ""
  /\ modelConfig = NoConfig
  /\ routePc = "off"
  /\ apiKey \in BOOLEAN
  /\ cachedAssistantId = Null
  /\ cachedThreadId = Null
  /\ cachedContextHash = Null
  /\ assistants = <<>>
  /\ threads = <<>>
  /\ calls = [c \in Calls |-> IdleCall]
  /\ started = 0
  /\ promptsUsed = {}
  /\ threadsUsed = {}
  /\ ChatIdle

\* NextAttempt with one attempt too many
NextAttempt_OneMore(call) ==
  LET attempt == call.attempt + 1
  IN  IF attempt <= MAX_RETRIES + 1
        THEN [call EXCEPT !.attempt = attempt, !.pc = "getAssistant"]
        ELSE [call EXCEPT !.attempt = attempt, !.pc = "done",
                !.outcome = Returned(mockBackboardResponse(
                  call.text, call.model, EffectiveSystemPrompt(call.systemPrompt)))]

\* NextAttempt that gives up with an error instead of the mock response
NextAttempt_Throws(call) ==
  LET attempt == call.attempt + 1
  IN  IF attempt <= MAX_RETRIES
        THEN [call EXCEPT !.attempt = attempt, !.pc = "getAssistant"]
        ELSE [call EXCEPT !.attempt = attempt, !.pc = "done",
                !.outcome = Thrown("Failed to connect to Backboard after 3 attempts: "
                                     \o call.lastError.message)]

\* the for statement's update and test, then either the next attempt or the
\* mock fallback after the loop
NextAttempt(call) ==
  LET attempt == call.attempt + 1
  IN  IF attempt <= MAX_RETRIES
        THEN [call EXCEPT !.attempt = attempt, !.pc = "getAssistant"]
        ELSE [call EXCEPT !.attempt = attempt, !.pc = "done",
                !.outcome = Returned(mockBackboardResponse(
                  call.text, call.model, EffectiveSystemPrompt(call.systemPrompt)))]

\* AfterFailure with the rate-limit test before the authentication test
AfterFailure_RateLimitFirst(call, error) ==
  LET failed == [call EXCEPT !.lastError = error]
  IN  IF error.isError /\ includes(error.message, "429")
        THEN [failed EXCEPT !.pc = "done",
                !.outcome = Thrown("Rate limit exceeded. Please try again later.")]
      ELSE IF error.isError
           /\ (includes(error.message, "401") \/ includes(error.message, "403"))
        THEN [failed EXCEPT !.pc = "done",
                !.outcome = Thrown("Invalid Backboard API key")]
      ELSE IF call.attempt < MAX_RETRIES
        THEN [failed EXCEPT !.pc = "sleep",
                !.delays = Append(@, RETRY_DELAY_MS * (call.attempt + 1))]
      ELSE NextAttempt(failed)

\* AfterFailure that waits RETRY_DELAY_MS before every retry
AfterFailure_ConstantDelay(call, error) ==
  LET failed == [call EXCEPT !.lastError = error]
  IN  IF error.isError
           /\ (includes(error.message, "401") \/ includes(error.message, "403"))
        THEN [failed EXCEPT !.pc = "done",
                !.outcome = Thrown("Invalid Backboard API key")]
      ELSE IF error.isError /\ includes(error.message, "429")
        THEN [failed EXCEPT !.pc = "done",
                !.outcome = Thrown("Rate limit exceeded. Please try again later.")]
      ELSE IF call.attempt < MAX_RETRIES
        THEN [failed EXCEPT !.pc = "sleep",
                !.delays = Append(@, RETRY_DELAY_MS)]
      ELSE NextAttempt(failed)

\* the catch block of the retry loop
AfterFailure(call, error) ==
  LET failed == [call EXCEPT !.lastError = error]
  IN  IF error.isError
           /\ (includes(error.message, "401") \/ includes(error.message, "403"))
        THEN [failed EXCEPT !.pc = "done",
                !.outcome = Thrown("Invalid Backboard API key")]
      ELSE IF error.isError /\ includes(error.message, "429")
        THEN [failed EXCEPT !.pc = "done",
                !.outcome = Thrown("Rate limit exceeded. Please try again later.")]
      ELSE IF call.attempt < MAX_RETRIES
        THEN [failed EXCEPT !.pc = "sleep",
                !.delays = Append(@, RETRY_DELAY_MS * (call.attempt + 1))]
      ELSE NextAttempt(failed)

\* Enter that never looks at the API key
Enter_NoKeyCheck(call) ==
  IF USE_MOCK
    THEN [call EXCEPT !.pc = "done",
            !.outcome = Returned(mockBackboardResponse(
              call.text, call.model, EffectiveSystemPrompt(call.systemPrompt)))]
  ELSE [call EXCEPT !.pc = "getAssistant"]

\* the start of sendToModel, up to the first attempt
Enter(call) ==
  IF USE_MOCK
    THEN [call EXCEPT !.pc = "done",
            !.outcome = Returned(mockBackboardResponse(
              call.text, call.model, EffectiveSystemPrompt(call.systemPrompt)))]
  ELSE IF ~apiKey
    THEN [call EXCEPT !.pc = "done",
            !.outcome = Thrown("Backboard API key not configured")]
  ELSE [call EXCEPT !.pc = "getAssistant"]

Begin(c, caller, text, model, messages, conversationHistory, systemPrompt) ==
  /\ calls[c].pc = "idle"
  /\ started < MaxCalls
  /\ started' = started + 1
  /\ promptsUsed' = promptsUsed \cup {EffectiveSystemPrompt(systemPrompt)}
  /\ calls' = [calls EXCEPT ![c] =
       Enter([IdleCall EXCEPT !.caller = caller, !.text = text, !.model = model,
                !.messages = messages,
                !.conversationHistory = conversationHistory,
                !.systemPrompt = systemPrompt])]
  /\ UNCHANGED <<routingVars, chatVars, apiKey, cacheVars, sdkVars, threadsUsed>>

\* POST /api/chat with the body ChatPanel.handleSend builds
CallSendToModel(c) ==
  \E text \in Texts, model \in Models, messages \in ChatLogs,
     systemPrompt \in SystemPrompts :
    Begin(c, "chat", text, model, messages, SliceLast(messages, 5), systemPrompt)

CallTestConnection(c) ==
  Begin(c, "testConnection", "test", "fallback", <<>>, <<>>, "")

\* ContextChanged that also drops the cache when the hash is unchanged
ContextChanged_Always(assistantId, cachedHash, contextHash) ==
  assistantId # Null

\* ContextChanged that keeps the cache whatever the hash
ContextChanged_Never(assistantId, cachedHash, contextHash) ==
  FALSE

\* getAssistant up to its await (or its return of the cached id)
ContextChanged(assistantId, cachedHash, contextHash) ==
  assistantId # Null /\ cachedHash # contextHash

GetAssistant(c) ==
  /\ calls[c].pc = "getAssistant"
  /\ \E contextHash \in {hashContext(EffectiveSystemPrompt(calls[c].systemPrompt))} :
     LET changed == ContextChanged(cachedAssistantId, cachedContextHash, contextHash)
         assistantId == IF changed THEN Null ELSE cachedAssistantId
     IN
      /\ cachedAssistantId' = assistantId
      /\ cachedThreadId' = IF changed THEN Null ELSE cachedThreadId
      /\ calls' = [calls EXCEPT ![c] =
           IF assistantId # Null
             THEN [@ EXCEPT !.assistantId = assistantId, !.pc = "getThread"]
             ELSE [@ EXCEPT !.pc = "createAssistant"]]
      /\ UNCHANGED <<routingVars, chatVars, apiKey, cachedContextHash, sdkVars, runVars>>

CreateAssistantResolves(c) ==
  LET assistantId == AssistantIdOf(Len(assistants) + 1)
      description == EffectiveSystemPrompt(calls[c].systemPrompt)
  IN  /\ calls[c].pc = "createAssistant"
      /\ assistants' = Append(assistants,
           [assistantId |-> assistantId, description |-> description])
      /\ cachedAssistantId' = assistantId
      /\ cachedContextHash' = hashContext(description)
      /\ calls' = [calls EXCEPT ![c].assistantId = assistantId,
                                ![c].pc = "getThread"]
      /\ UNCHANGED <<routingVars, chatVars, apiKey, cachedThreadId, threads, runVars>>

Fails(c, error) ==
  /\ \E failed \in {AfterFailure(calls[c], error)} :
       calls' = [calls EXCEPT ![c] = failed]
  /\ UNCHANGED <<routingVars, chatVars, apiKey, cacheVars, sdkVars, runVars>>

CreateAssistantRejects(c) ==
  /\ calls[c].pc = "createAssistant"
  /\ \E error \in Rejections : Fails(c, error)

GetThread(c) ==
  /\ calls[c].pc = "getThread"
  /\ calls' = [calls EXCEPT ![c] =
       IF cachedThreadId # Null
         THEN [@ EXCEPT !.threadId = cachedThreadId, !.pc = "send"]
         ELSE [@ EXCEPT !.pc = "createThread"]]
  /\ UNCHANGED <<routingVars, chatVars, apiKey, cacheVars, sdkVars, runVars>>

CreateThreadResolves(c) ==
  LET threadId == ThreadIdOf(Len(threads) + 1)
  IN  /\ calls[c].pc = "createThread"
      /\ threads' = Append(threads,
           [threadId |-> threadId, assistantId |-> calls[c].assistantId])
      /\ cachedThreadId' = threadId
      /\ calls' = [calls EXCEPT ![c].threadId = threadId, ![c].pc = "send"]
      /\ UNCHANGED <<routingVars, chatVars, apiKey, cachedAssistantId, cachedContextHash,
                     assistants, runVars>>

CreateThreadRejects(c) ==
  /\ calls[c].pc = "createThread"
  /\ \E error \in Rejections : Fails(c, error)

\* SendMessage that picks the model by the call's model argument
SendMessage_ModelFromArgument(c) ==
  /\ calls[c].pc = "send"
  /\ \E request \in {[AddMessageRequest(calls[c].threadId, calls[c].text) EXCEPT
                        !.llm_provider = "openai",
                        !.model_name = IF calls[c].model = "gemini"
                                         THEN "gpt-4o" ELSE "gpt-4o-mini"]} :
      /\ calls' = [calls EXCEPT ![c].requests = Append(@, request),
                                ![c].pc = "addMessage"]
      /\ threadsUsed' = threadsUsed \cup {request.threadId}
      /\ UNCHANGED <<routingVars, chatVars, apiKey, cacheVars, sdkVars, started, promptsUsed>>

SendMessage(c) ==
  /\ calls[c].pc = "send"
  /\ \E request \in {AddMessageRequest(calls[c].threadId, calls[c].text)} :
      /\ calls' = [calls EXCEPT ![c].requests = Append(@, request),
                                ![c].pc = "addMessage"]
      /\ threadsUsed' = threadsUsed \cup {request.threadId}
      /\ UNCHANGED <<routingVars, chatVars, apiKey, cacheVars, sdkVars, started, promptsUsed>>

\* the catch block after an answer of backboard.addMessage
FailsAfter(c, response, error) ==
  /\ \E failed \in {AfterFailure([calls[c] EXCEPT !.response = response], error)} :
       calls' = [calls EXCEPT ![c] = failed]
  /\ UNCHANGED <<routingVars, chatVars, apiKey, cacheVars, sdkVars, runVars>>

\* AddMessageResolves that treats a reply it cannot parse as a failed attempt
AddMessageResolves_RetriesUnparsable(c) ==
  /\ calls[c].pc = "addMessage"
  /\ \E response \in MessageResponses :
       IF response.status = "FAILED"
         THEN FailsAfter(c, response,
                         Error("Backboard response failed: " \o response.content))
       ELSE IF JSONParse(StripMarkdown(response.content)) = SyntaxError
         THEN FailsAfter(c, response, Error("Failed to parse AI response"))
         ELSE /\ \E parsed \in {ParseReply(calls[c].text, response.content)} :
                   calls' = [calls EXCEPT ![c].pc = "done",
                               ![c].apiSucceeded = TRUE,
                               ![c].response = response,
                               ![c].outcome = Returned(parsed)]
              /\ UNCHANGED <<routingVars, chatVars, apiKey, cacheVars, sdkVars, runVars>>

AddMessageResolves(c) ==
  /\ calls[c].pc = "addMessage"
  /\ \E response \in MessageResponses :
       IF response.status = "FAILED"
         THEN FailsAfter(c, response,
                         Error("Backboard response failed: " \o response.content))
         ELSE /\ \E parsed \in {ParseReply(calls[c].text, response.content)} :
                   calls' = [calls EXCEPT ![c].pc = "done",
                               ![c].apiSucceeded = TRUE,
                               ![c].response = response,
                               ![c].outcome = Returned(parsed)]
              /\ UNCHANGED <<routingVars, chatVars, apiKey, cacheVars, sdkVars, runVars>>

AddMessageRejects(c) ==
  /\ calls[c].pc = "addMessage"
  /\ \E error \in Rejections : Fails(c, error)

\* sleep(RETRY_DELAY_MS * (attempt + 1)) is over
WakeUp(c) ==
  /\ calls[c].pc = "sleep"
  /\ \E next \in {NextAttempt(calls[c])} : calls' = [calls EXCEPT ![c] = next]
  /\ UNCHANGED <<routingVars, chatVars, apiKey, cacheVars, sdkVars, runVars>>

\* testConnection after its await of sendToModel
TestConnectionSettles(c) ==
  /\ calls[c].pc = "done"
  /\ calls[c].caller = "testConnection"
  /\ calls' = [calls EXCEPT ![c].pc = "settled",
                 ![c].testConnection =
                   IF calls[c].outcome.kind = "returned" THEN "true" ELSE "throws"]
  /\ UNCHANGED <<routingVars, chatVars, apiKey, cacheVars, sdkVars, runVars>>

\* the caller has taken the outcome
Finish(c) ==
  /\ \/ calls[c].pc = "done" /\ calls[c].caller = "chat"
     \/ calls[c].pc = "settled"
  /\ calls' = [calls EXCEPT ![c] = IdleCall]
  /\ UNCHANGED <<routingVars, chatVars, apiKey, cacheVars, sdkVars, runVars>>

Step(c) ==
  \/ CallSendToModel(c)
  \/ CallTestConnection(c)
  \/ GetAssistant(c)
  \/ CreateAssistantResolves(c)
  \/ CreateAssistantRejects(c)
  \/ GetThread(c)
  \/ CreateThreadResolves(c)
  \/ CreateThreadRejects(c)
  \/ SendMessage(c)
  \/ AddMessageResolves(c)
  \/ AddMessageRejects(c)
  \/ WakeUp(c)
  \/ TestConnectionSettles(c)
  \/ Finish(c)

Next == \E c \in SequentialCalls : Step(c)

Spec == Init /\ [][Next]_vars

\* Every awaited SDK call and every sleep completes, and callers take their
\* outcome; nothing obliges anyone to start a call.
Progress(c) ==
  \/ GetAssistant(c)
  \/ CreateAssistantResolves(c)
  \/ CreateAssistantRejects(c)
  \/ GetThread(c)
  \/ CreateThreadResolves(c)
  \/ CreateThreadRejects(c)
  \/ SendMessage(c)
  \/ AddMessageResolves(c)
  \/ AddMessageRejects(c)
  \/ WakeUp(c)
  \/ TestConnectionSettles(c)
  \/ Finish(c)

\* runs of at most MaxFairCalls calls
NextWithin == Next /\ started' <= MaxFairCalls

FairSpec == Init /\ [][NextWithin]_vars /\ \A c \in SequentialCalls : WF_vars(Progress(c))

\* ------------------------------------------------------------------------
\* Overlapping calls (SpecConcurrent): two sendToModel calls are in flight
\* at once and take their steps in any order; each step runs from one await
\* to the next, and the module-level cache is shared.
\* ------------------------------------------------------------------------
\* "" (the default prompt) and "Aa" have different context hashes
ConcurrentPrompts == {"", "Aa"}

CallConcurrently(c) ==
  \E systemPrompt \in ConcurrentPrompts :
    Begin(c, "chat", "test", "gemini", ChatLog(0), ChatLog(0), systemPrompt)

StepConcurrent(c) ==
  \/ CallConcurrently(c)
  \/ GetAssistant(c)
  \/ CreateAssistantResolves(c)
  \/ CreateAssistantRejects(c)
  \/ GetThread(c)
  \/ CreateThreadResolves(c)
  \/ CreateThreadRejects(c)
  \/ SendMessage(c)
  \/ AddMessageResolves(c)
  \/ AddMessageRejects(c)
  \/ WakeUp(c)
  \/ Finish(c)

\* what the SDK does in these runs: it rejects with a network error, and
\* addMessage answers with a batch
ConcurrentErrors == {NoError, Error("network down")}
ConcurrentResponses ==
  {NoResponse, [status |-> "COMPLETED", content |-> BatchReply]}

\* runs in which no call goes beyond its attempt MaxConcurrentAttempts
NextConcurrent ==
  /\ \E c \in Calls : StepConcurrent(c)
  /\ \A c \in Calls :
       /\ calls'[c].attempt <= MaxConcurrentAttempts
       /\ calls'[c].lastError \in ConcurrentErrors
       /\ calls'[c].response \in ConcurrentResponses

SpecConcurrent == Init /\ [][NextConcurrent]_vars

\* ------------------------------------------------------------------------
\* The mock responder on its own (SpecMock): a text and a system prompt are
\* drawn, then mockBackboardResponse is applied to them.
\* ------------------------------------------------------------------------
MockVocabulary == {"make", "create", "Beat", "beat", "suggest", "clip", "next"}

RECURSIVE MockSentences(_)
MockSentences(n) ==
  IF n = 1 THEN MockVocabulary
  ELSE LET shorter == MockSentences(n - 1)
       IN  shorter \cup {s \o " " \o w : s \in shorter, w \in MockVocabulary}

MockTexts == MockSentences(MaxMockWords)

\* The prompt of a ghost-preview request names the track (1-based), the
\* start tick and the patterns of the project; NoNumber leaves a part out.
NoNumber == -1
TrackNumbers == {NoNumber, 1, 12}
StartTicks == {NoNumber, 0, 768}

RECURSIVE PatternList(_)
PatternList(n) ==
  IF n = 0 THEN ""
  ELSE PatternList(n - 1) \o "\n\"Kick\" (2 bars, ID: p-" \o NumberToString(n) \o ")"

SuggestionPrompt(track, tick, patterns) ==
  "Next clip"
    \o (IF track # NoNumber THEN " on Track " \o NumberToString(track) ELSE "")
    \o (IF tick # NoNumber THEN "\n\"startTick\": " \o NumberToString(tick) ELSE "")
    \o PatternList(patterns)

\* "" is an absent system prompt
MockPrompts ==
  {""} \cup {SuggestionPrompt(track, tick, patterns) :
               track \in TrackNumbers, tick \in StartTicks, patterns \in 0..MaxPatterns}

InitMock ==
  /\ userInput = ""
  /\ taskType = ""
  /\ modelConfig = NoConfig
  /\ routePc = "off"
  /\ apiKey = TRUE
  /\ cachedAssistantId = Null
  /\ cachedThreadId = Null
  /\ cachedContextHash = Null
  /\ assistants = <<>>
  /\ threads = <<>>
  /\ \E text \in MockTexts, systemPrompt \in MockPrompts :
       calls = [c \in Calls |->
                  IF c \in SequentialCalls
                    THEN [IdleCall EXCEPT !.pc = "mock", !.caller = "mock",
                            !.text = text, !.model = "gemini",
                            !.systemPrompt = systemPrompt]
                    ELSE IdleCall]
  /\ started = 0
  /\ promptsUsed = {}
  /\ threadsUsed = {}
  /\ ChatIdle

ApplyMock(c) ==
  /\ calls[c].pc = "mock"
  /\ calls' = [calls EXCEPT
       ![c].pc = "done",
       ![c].outcome = Returned(mockBackboardResponse(
                        calls[c].text, calls[c].model, calls[c].systemPrompt))]
  /\ UNCHANGED <<routingVars, chatVars, apiKey, cacheVars, sdkVars, runVars>>

NextMock == \E c \in SequentialCalls : ApplyMock(c)

SpecMock == InitMock /\ [][NextMock]_vars

\* ------------------------------------------------------------------------
\* The chat panel (SpecChat): handleSend, one step per stretch of code
\* between two awaits; the sample library, /api/chat and the executors
\* answer as they please.
\* ------------------------------------------------------------------------
InitChat ==
  /\ userInput = ""
  /\ taskType = ""
  /\ modelConfig = NoConfig
  /\ routePc = "off"
  /\ BackboardIdle
  /\ component \in Components
  /\ inputText = ""
  /\ chatMessages = <<>>
  /\ isPending = FALSE
  /\ lastAICommandId = Null
  /\ sends = [s \in Sends |-> IdleSend]
  /\ handleSendCalls = 0
  /\ panelActions = <<>>

\* the textarea is disabled while a request is pending
HandleTextareaChange(value) ==
  /\ ~isPending
  /\ inputText' = value
  /\ UNCHANGED <<routingVars, backboardVars, panelActions, component, chatMessages, isPending,
                 lastAICommandId, sends, handleSendCalls>>

\* the guard that accepts any text but the empty one
Accepts_Untrimmed(text, pending) == ~(text = "" \/ pending)

\* if (!inputText.trim() || isPending) return;
Accepts(text, pending) == ~(trim(text) = "" \/ pending)

FreeSends == {s \in Sends : sends[s].pc = "idle"}

\* handleSend up to its first await
HandleSend ==
  /\ handleSendCalls < MaxHandleSendCalls
  /\ handleSendCalls' = handleSendCalls + 1
  /\ \/ /\ ~Accepts(inputText, isPending)
        /\ UNCHANGED <<inputText, chatMessages, isPending, lastAICommandId, sends>>
     \/ /\ Accepts(inputText, isPending)
        /\ FreeSends # {}
        /\ \E userMessage \in {trim(inputText)} :
             /\ inputText' = ""
             /\ chatMessages' = Append(chatMessages, Message("user", userMessage, "sent"))
             /\ isPending' = TRUE
             /\ sends' = [sends EXCEPT ![SetMin(FreeSends)] =
                  [IdleSend EXCEPT !.pc = "loadSampleLibrary",
                                   !.call = handleSendCalls + 1,
                                   !.userMessage = userMessage,
                                   !.messages = chatMessages,
                                   !.lastBefore = lastAICommandId]]
             /\ UNCHANGED lastAICommandId
  /\ UNCHANGED <<routingVars, backboardVars, panelActions, component>>

\* error instanceof Error ? error.message : fallback
MessageOf(error, fallback) == IF error.isError THEN error.message ELSE fallback

IsTypeError(error) == "isTypeError" \in DOMAIN error /\ error.isTypeError

\* the reply of the outer catch that calls every failure a success
FailureReply_Sent(error) ==
  Message("agent",
          "Failed to process your request: " \o MessageOf(error, "Network error occurred"),
          "sent")

\* the reply of the outer catch
FailureReply(error) ==
  Message("agent",
          "Failed to process your request: " \o MessageOf(error, "Network error occurred"),
          "error")

\* the reply of the inner catch
ExecutionFailureReply(error) ==
  Message("agent",
          "Failed to execute command: " \o MessageOf(error, "Unknown error"),
          "error")

ErrorToast(error) ==
  IF IsTypeError(error) /\ includes(error.message, "fetch")
    THEN "Network error - please check your connection"
    ELSE MessageOf(error, "Network error occurred")

\* Finishes that leaves the request pending after an error reply
Finishes_PendingAfterError(s, replies, commandId, send) ==
  /\ chatMessages' = chatMessages \o replies
  /\ lastAICommandId' = commandId
  /\ isPending' = (replies[Len(replies)].status = "error")
  /\ sends' = [sends EXCEPT ![s] = [send EXCEPT !.pc = "done"]]
  /\ UNCHANGED <<routingVars, backboardVars, panelActions, component, inputText, handleSendCalls>>

\* the rest of handleSend once nothing is left to await: the replies are
\* added, the command id is kept, and the finally block clears the pending
\* state
Finishes(s, replies, commandId, send) ==
  /\ chatMessages' = chatMessages \o replies
  /\ lastAICommandId' = commandId
  /\ isPending' = FALSE
  /\ sends' = [sends EXCEPT ![s] = [send EXCEPT !.pc = "done"]]
  /\ UNCHANGED <<routingVars, backboardVars, panelActions, component, inputText, handleSendCalls>>

\* the outer catch and the finally block
Catches(s, failure, error) ==
  Finishes(s, <<FailureReply(error)>>, lastAICommandId,
           [sends[s] EXCEPT !.failure = failure, !.toast = ErrorToast(error)])

\* the inner catch and the finally block
CatchesExecution(s, replies, result, error) ==
  Finishes(s, Append(replies, ExecutionFailureReply(error)), lastAICommandId,
           [sends[s] EXCEPT !.result = result, !.failure = "execution"])

Continues(s, send) ==
  /\ sends' = [sends EXCEPT ![s] = send]
  /\ UNCHANGED <<routingVars, backboardVars, panelActions, component, inputText, chatMessages,
                 isPending, lastAICommandId, handleSendCalls>>

\* the sample library is there: the context and the prompt are built and
\* the request is posted
LoadSampleLibraryResolves(s) ==
  /\ sends[s].pc = "loadSampleLibrary"
  /\ Continues(s, [sends[s] EXCEPT
       !.pc = "fetch",
       !.requests = Append(@, [text |-> sends[s].userMessage,
                               conversationHistory |-> SliceLast(sends[s].messages, 5)])])

LoadSampleLibraryRejects(s) ==
  /\ sends[s].pc = "loadSampleLibrary"
  /\ \E error \in Failures : Catches(s, "sample library", error)

FetchRejects(s) ==
  /\ sends[s].pc = "fetch"
  /\ \E error \in FetchRejections : Catches(s, "fetch rejected", error)

FetchResolves(s) ==
  /\ sends[s].pc = "fetch"
  /\ \E ok \in BOOLEAN :
       Continues(s, [sends[s] EXCEPT !.pc = IF ok THEN "json" ELSE "errorJson"])

\* value.key, where reading a property of null throws
ReadError(value, key) ==
  TypeError("Cannot read properties of null (reading '" \o key \o "')")

\* the body of a response that is not OK: errorData.error || API error: status
ErrorJsonSettles(s) ==
  /\ sends[s].pc = "errorJson"
  /\ \E errorData \in ErrorBodies :
       IF errorData = JNull
         THEN Catches(s, "status not OK", ReadError(errorData, "error"))
         ELSE Catches(s, "status not OK", Error(OrElse(Prop(errorData, "error"),
                                      JStr("API error: "
                                             \o NumberToString(HttpErrorStatus))).v))

JsonRejects(s) ==
  /\ sends[s].pc = "json"
  /\ Catches(s, "body unreadable", Error("Unexpected end of JSON input"))

\* backboardResponse.action === '__batch__' && backboardResponse.parameters?.actions
IsBatchResponse(backboardResponse) ==
  /\ Prop(backboardResponse, "action") = JStr("__batch__")
  /\ Truthy(Prop(Prop(backboardResponse, "parameters"), "actions"))

\* the body of an OK response, up to the await of an executor
JsonResolves(s) ==
  /\ sends[s].pc = "json"
  /\ \E apiResponse \in ApiResponses :
       IF apiResponse = JNull
         THEN Catches(s, "body unreadable", ReadError(apiResponse, "success"))
       ELSE IF ~Truthy(Prop(apiResponse, "success"))
         THEN Catches(s, "success false", Error(OrElse(Prop(apiResponse, "error"),
                                      JStr("Unknown API error")).v))
       ELSE
         \E data \in {Prop(apiResponse, "data")} :
         \E modelInfo \in {IF component = "DockingLayout.tsx"
                             THEN Prop(data, "modelInfo") ELSE JUndefined} :
         \E commandResult \in {Prop(data, "commandResult")} :
           IF Truthy(commandResult)
             THEN IF IsBatchResponse(commandResult)
                    THEN Continues(s, [sends[s] EXCEPT
                           !.pc = "executeBatch",
                           !.modelInfo = modelInfo,
                           !.commandResult = commandResult,
                           !.executed = Append(@, "executeBatch")])
                    ELSE \/ Continues(s, [sends[s] EXCEPT
                                !.pc = "executeCommand",
                                !.modelInfo = modelInfo,
                                !.commandResult = commandResult,
                                !.executed = Append(@, "executeCommand")])
                         \/ \E error \in Failures :    \* parseAIResponse throws
                              CatchesExecution(s, <<>>, JUndefined, error)
           ELSE IF Truthy(Prop(data, "message"))
             THEN Finishes(s, <<Message("agent", Prop(data, "message").v, "sent")>>,
                           lastAICommandId, sends[s])
           ELSE Finishes(s, <<Message("agent",
                                      "Received response but no actionable command.",
                                      "sent")>>,
                         lastAICommandId, sends[s])

\* the status that treats one success as a failure
BatchFailureStatus_NeedsTwo(batchResult) ==
  IF Prop(batchResult, "successCount").v > 1 THEN "sent" ELSE "error"

\* batchResult.successCount > 0 ? 'sent' : 'error'
BatchFailureStatus(batchResult) ==
  IF Prop(batchResult, "successCount").v > 0 THEN "sent" ELSE "error"

\* DockingLayout.tsx calls setMessageModelInfoMap, which nothing declares
setMessageModelInfoMap == Error("setMessageModelInfoMap is not defined")

\* ExecuteBatchResolves that stores the undo group of a failed batch too
ExecuteBatchResolves_RecordsFailed(s) ==
  /\ sends[s].pc = "executeBatch"
  /\ \E batchResult \in BatchResults :
     \E reply \in {Prop(batchResult, "message").v} :
       IF Truthy(Prop(batchResult, "success"))
         THEN IF Truthy(sends[s].modelInfo)
                THEN CatchesExecution(s, <<Message("agent", reply, "sent")>>,
                                      batchResult, setMessageModelInfoMap)
                ELSE Finishes(s, <<Message("agent", reply, "sent")>>,
                              IF Truthy(Prop(batchResult, "undoGroupId"))
                                THEN Prop(batchResult, "undoGroupId").v
                                ELSE lastAICommandId,
                              [sends[s] EXCEPT !.result = batchResult])
         ELSE Finishes(s, <<Message("agent", reply, BatchFailureStatus(batchResult))>>,
                       IF Truthy(Prop(batchResult, "undoGroupId"))
                         THEN Prop(batchResult, "undoGroupId").v
                         ELSE lastAICommandId,
                       [sends[s] EXCEPT !.result = batchResult])

ExecuteBatchResolves(s) ==
  /\ sends[s].pc = "executeBatch"
  /\ \E batchResult \in BatchResults :
     \E reply \in {Prop(batchResult, "message").v} :
       IF Truthy(Prop(batchResult, "success"))
         THEN IF Truthy(sends[s].modelInfo)
                THEN CatchesExecution(s, <<Message("agent", reply, "sent")>>,
                                      batchResult, setMessageModelInfoMap)
                ELSE Finishes(s, <<Message("agent", reply, "sent")>>,
                              IF Truthy(Prop(batchResult, "undoGroupId"))
                                THEN Prop(batchResult, "undoGroupId").v
                                ELSE lastAICommandId,
                              [sends[s] EXCEPT !.result = batchResult])
         ELSE Finishes(s, <<Message("agent", reply, BatchFailureStatus(batchResult))>>,
                       lastAICommandId, [sends[s] EXCEPT !.result = batchResult])

ExecuteBatchRejects(s) ==
  /\ sends[s].pc = "executeBatch"
  /\ \E error \in Failures : CatchesExecution(s, <<>>, JUndefined, error)

ExecuteCommandResolves(s) ==
  /\ sends[s].pc = "executeCommand"
  /\ \E result \in CommandResults :
     \E commandId \in {Prop(Prop(result, "data"), "commandId")} :
       IF Truthy(Prop(result, "success"))
         THEN Finishes(s, <<Message("agent", Prop(result, "message").v, "sent")>>,
                       IF Truthy(commandId) THEN commandId.v ELSE lastAICommandId,
                       [sends[s] EXCEPT !.result = result])
         ELSE Finishes(s, <<Message("agent", "Error: " \o Prop(result, "message").v,
                                    "error")>>,
                       lastAICommandId, [sends[s] EXCEPT !.result = result])

ExecuteCommandRejects(s) ==
  /\ sends[s].pc = "executeCommand"
  /\ \E error \in Failures : CatchesExecution(s, <<>>, JUndefined, error)

\* every awaited call of a send completes
SendProgress(s) ==
  \/ LoadSampleLibraryResolves(s)
  \/ LoadSampleLibraryRejects(s)
  \/ FetchRejects(s)
  \/ FetchResolves(s)
  \/ ErrorJsonSettles(s)
  \/ JsonRejects(s)
  \/ JsonResolves(s)
  \/ ExecuteBatchResolves(s)
  \/ ExecuteBatchRejects(s)
  \/ ExecuteCommandResolves(s)
  \/ ExecuteCommandRejects(s)

NextChat ==
  \/ \E value \in InputTexts : HandleTextareaChange(value)
  \/ HandleSend
  \/ \E s \in Sends : SendProgress(s)

SpecChat == InitChat /\ [][NextChat]_vars

\* The user may stop typing and sending; what handleSend awaits completes.
\* runs of at most MaxFairSends accepted sends
NextChatWithin ==
  NextChat /\ Cardinality({s \in Sends : sends'[s].pc # "idle"}) <= MaxFairSends

FairSpecChat ==
  InitChat /\ [][NextChatWithin]_vars /\ \A s \in Sends : WF_vars(SendProgress(s))

\* ------------------------------------------------------------------------
\* The controls of the panel (SpecPanel): besides typing and sending, the
\* user clicks the undo and the clear button whenever the browser lets them,
\* that is whenever the button is not disabled.
\* ------------------------------------------------------------------------
\* the disabled attribute of the undo button without the pending test
UndoDisabled_IgnoresPending(canUndo) == ~canUndo

\* disabled={!canUndoAIAction() || isPending}
UndoDisabled(canUndo) == ~canUndo \/ isPending

\* disabled={messages.length === 0 || isPending}
ClearDisabled == Len(chatMessages) = 0 \/ isPending

\* disabled={isPending} of the textarea
TextareaDisabled == isPending

\* disabled={!inputText.trim() || isPending} of the send button
SendDisabled == trim(inputText) = "" \/ isPending

PanelAction(handler) == [handler |-> handler, pending |-> isPending]

\* handleUndo: what undoLastAIAction undoes lies outside the chat slice
HandleUndo ==
  /\ Len(panelActions) < MaxPanelActions
  /\ \E canUndo \in BOOLEAN : ~UndoDisabled(canUndo)
  /\ panelActions' = Append(panelActions, PanelAction("handleUndo"))
  /\ UNCHANGED <<routingVars, backboardVars, component, inputText, chatMessages,
                 isPending, lastAICommandId, sends, handleSendCalls>>

\* handleClearChat; confirmed is the answer to confirm('Clear all chat history?')
HandleClearChat ==
  /\ Len(panelActions) < MaxPanelActions
  /\ ~ClearDisabled
  /\ Len(chatMessages) # 0
  /\ \E confirmed \in BOOLEAN :
       chatMessages' = IF confirmed THEN <<>> ELSE chatMessages
  /\ panelActions' = Append(panelActions, PanelAction("handleClearChat"))
  /\ UNCHANGED <<routingVars, backboardVars, component, inputText,
                 isPending, lastAICommandId, sends, handleSendCalls>>

PanelStep ==
  \/ \E value \in InputTexts : HandleTextareaChange(value)
  \/ HandleSend
  \/ \E s \in Sends : SendProgress(s)
  \/ HandleUndo
  \/ HandleClearChat

\* runs of at most MaxPanelSends accepted sends
NextPanel ==
  PanelStep /\ Cardinality({s \in Sends : sends'[s].pc # "idle"}) <= MaxPanelSends

SpecPanel == InitChat /\ [][NextPanel]_vars

\* ------------------------------------------------------------------------
\* Properties of classification and routing (SpecRouting)
\* ------------------------------------------------------------------------
HasDigit(text) == test(hasNumber, toLowerCase(text))
MatchesAnalytical(text) == anyTest(analyticalPatterns, toLowerCase(text))
MatchesCreative(text) == anyTest(creativePatterns, toLowerCase(text))
MatchesTechnical(text) == anyTest(technicalPatterns, toLowerCase(text))

IsConfig(config, provider, modelName) ==
  /\ DOMAIN config = {"provider", "modelName", "description"}
  /\ config.provider = provider
  /\ config.modelName = modelName

\* C1: getModelForTask maps creative to google/gemini-2.5-flash, technical to
\* openai/gpt-4o, analytical to anthropic/claude-sonnet-4-20250514, fallback
\* to openai/gpt-4o-mini, and every other key to openai/gpt-4o-mini.
C1_GetModelForTaskTotal ==
  routePc \in {"routed", "found"} =>
    CASE taskType = "creative" -> IsConfig(modelConfig, "google", "gemini-2.5-flash")
      [] taskType = "technical" -> IsConfig(modelConfig, "openai", "gpt-4o")
      [] taskType = "analytical" ->
           IsConfig(modelConfig, "anthropic", "claude-sonnet-4-20250514")
      [] OTHER -> IsConfig(modelConfig, "openai", "gpt-4o-mini")

C3_TechnicalGoesToGpt4o ==
  (routePc = "routed" /\ MatchesTechnical(userInput)) =>
    /\ taskType = "technical"
    /\ IsConfig(modelConfig, "openai", "gpt-4o")

\* C3 amended: a text that matches a technical pattern and either holds a
\* digit or matches no analytical and no creative pattern is classified
\* technical and routed to openai/gpt-4o.
C3_TechnicalGoesToGpt4oUnlessPreempted ==
  (/\ routePc = "routed"
   /\ MatchesTechnical(userInput)
   /\ \/ HasDigit(userInput)
      \/ ~MatchesAnalytical(userInput) /\ ~MatchesCreative(userInput)) =>
    /\ taskType = "technical"
    /\ IsConfig(modelConfig, "openai", "gpt-4o")

\* a text of more than three words whose only match is a technical pattern
\* has been routed to GPT-4o
C3_Witness ==
  /\ routePc = "routed"
  /\ MatchesTechnical(userInput)
  /\ ~HasDigit(userInput)
  /\ ~MatchesAnalytical(userInput)
  /\ ~MatchesCreative(userInput)
  /\ SplitLength(userInput, " ") > 3
  /\ taskType = "technical"
  /\ modelConfig.modelName = "gpt-4o"

\* the same text in capitals
RECURSIVE UpperCased(_)
UpperCased(text) ==
  IF text = "" THEN ""
  ELSE Only({toUpperCase1(c) : c \in {Head(text)}}) \o UpperCased(Tail(text))

\* C13: a text without a digit gets the result of the first applicable rule:
\* analytical pattern, creative pattern, technical pattern, at most 3 parts
\* when split on single spaces (technical), else creative. There always is a
\* result, it is one of the three task types, and the same text in capitals
\* gets the same result.
C13_OrderedRules ==
  routePc = "select" =>
    \A input \in {toLowerCase(userInput)} :
      ~test(hasNumber, input) =>
        /\ taskType =
             (IF anyTest(analyticalPatterns, input) THEN "analytical"
              ELSE IF anyTest(creativePatterns, input) THEN "creative"
              ELSE IF anyTest(technicalPatterns, input) THEN "technical"
              ELSE IF SplitLength(input, " ") <= 3 THEN "technical"
              ELSE "creative")
        /\ taskType \in {"analytical", "creative", "technical"}
        /\ classifyTask(UpperCased(userInput)) = taskType

\* a text with a capital letter that matches an analytical and a creative
\* pattern has been classified analytical
C13_Witness ==
  /\ routePc = "select"
  /\ userInput # toLowerCase(userInput)
  /\ ~HasDigit(userInput)
  /\ MatchesAnalytical(userInput)
  /\ MatchesCreative(userInput)
  /\ taskType = "analytical"

\* C14: a text with at least one decimal digit is classified technical,
\* whatever analytical or creative patterns it matches, and is routed to
\* openai/gpt-4o.
C14_NumberPriority ==
  (routePc \in {"select", "routed"} /\ HasDigit(userInput)) =>
    /\ taskType = "technical"
    /\ routePc = "routed" => IsConfig(modelConfig, "openai", "gpt-4o")

\* a text with a digit, an analytical and a creative pattern has been routed
\* to GPT-4o
C14_Witness ==
  /\ routePc = "routed"
  /\ HasDigit(userInput)
  /\ MatchesAnalytical(userInput)
  /\ MatchesCreative(userInput)
  /\ taskType = "technical"
  /\ IsConfig(modelConfig, "openai", "gpt-4o")

\* ------------------------------------------------------------------------
\* Properties of sendToModel and testConnection (Spec, FairSpec)
\* ------------------------------------------------------------------------
Min(a, b) == IF a <= b THEN a ELSE b

Finished(call) == call.pc \in {"done", "settled"}

InLoop(call) ==
  call.pc \in {"getAssistant", "createAssistant", "getThread", "createThread",
               "send", "addMessage", "sleep"}

IsAuthError(error) ==
  error.isError /\ (includes(error.message, "401") \/ includes(error.message, "403"))

IsRateLimitError(error) ==
  error.isError /\ includes(error.message, "429") /\ ~IsAuthError(error)

\* the texts a request hands to the model
CarriesMessage(request, message) == includes(request.content, message.text)

\* C4: the request of a send carries the last min(5, n) messages of the chat
\* log in their order, and these messages are passed on to the model call.
C4_HistoryReachesModel ==
  \A c \in Calls :
    LET call == calls[c]
        n == Len(call.messages)
        history == call.conversationHistory
    IN  /\ Len(history) = Min(5, n)
        /\ \A i \in 1..Len(history) : history[i] = call.messages[n - Len(history) + i]
        /\ \A k \in DOMAIN call.requests : \A i \in DOMAIN history :
             CarriesMessage(call.requests[k], history[i])

\* C5: while every call of the run has passed the same system prompt, at
\* most one assistant and at most one thread have been created, and every
\* addMessage has gone to that thread.
C5_OneAssistantOneThread ==
  Cardinality(promptsUsed) <= 1 =>
    /\ Len(assistants) <= 1
    /\ Len(threads) <= 1
    /\ threadsUsed \subseteq {threads[i].threadId : i \in DOMAIN threads}
    /\ \A c \in Calls : \A k \in DOMAIN calls[c].requests :
         calls[c].requests[k].threadId \in threadsUsed
    /\ (cachedThreadId # Null => Len(threads) = 1 /\ cachedThreadId = threads[1].threadId)
    /\ (Len(threads) = 1 => cachedThreadId = threads[1].threadId)
    /\ (Len(assistants) = 1 => cachedAssistantId = assistants[1].assistantId)

\* the second call with the same prompt is retrying and has sent a message
\* on the one thread of the one assistant
C5_Witness ==
  /\ started = 2
  /\ Cardinality(promptsUsed) = 1
  /\ \E c \in Calls :
       /\ calls[c].pc = "addMessage"
       /\ calls[c].attempt >= 1
       /\ calls[c].requests[Len(calls[c].requests)].threadId = threads[1].threadId
  /\ Len(assistants) = 1
  /\ Len(threads) = 1

\* C6: a call makes at most MAX_RETRIES + 1 attempts and addMessage calls,
\* every thrown error and every FAILED response uses up an attempt, and a
\* call whose SDK calls complete ends by returning or throwing.
C6_BoundedRetries ==
  /\ [](\A c \in Calls :
          /\ Len(calls[c].requests) <= MAX_RETRIES + 1
          /\ Len(calls[c].requests) <= calls[c].attempt + 1
          /\ (InLoop(calls[c]) => calls[c].attempt <= MAX_RETRIES)
          /\ (calls[c].pc # "idle" =>
                Len(calls[c].delays) =
                  IF calls[c].pc = "sleep" THEN calls[c].attempt + 1
                  ELSE Min(calls[c].attempt, MAX_RETRIES)))
  /\ \A c \in SequentialCalls :
       InLoop(calls[c]) ~>
         (calls[c].pc = "done" /\ calls[c].outcome.kind \in {"returned", "thrown"})

\* the third attempt of a call has sent its message
C6_Witness ==
  \E c \in Calls :
    /\ calls[c].pc = "addMessage"
    /\ calls[c].attempt = MAX_RETRIES
    /\ Len(calls[c].requests) = MAX_RETRIES + 1

MockFor(call) ==
  mockBackboardResponse(call.text, call.model, EffectiveSystemPrompt(call.systemPrompt))

C8_NoRetryOnAuthOrRateLimit ==
  \A c \in Calls :
    LET call == calls[c]
    IN  /\ IsAuthError(call.lastError) =>
             /\ Finished(call)
             /\ call.outcome = Thrown("Invalid Backboard API key")
        /\ IsRateLimitError(call.lastError) =>
             /\ Finished(call)
             /\ call.outcome = Thrown("Rate limit exceeded. Please try again later.")
        /\ (IsAuthError(call.lastError) \/ IsRateLimitError(call.lastError)) =>
             /\ Len(call.delays) = call.attempt
             /\ Len(call.requests) <= call.attempt + 1
             /\ call.attempt <= MAX_RETRIES

\* a retried call has failed with a message that holds both 429 and 401 and
\* has thrown the API key error
C8_Witness ==
  \E c \in Calls :
    /\ calls[c].pc = "done"
    /\ calls[c].attempt = 1
    /\ calls[c].lastError = Error("HTTP 429 after 401")
    /\ calls[c].outcome = Thrown("Invalid Backboard API key")

\* C9: testConnection returns true only for a run in which a real API
\* attempt succeeded.
C9_TestConnectionNeedsApi ==
  \A c \in Calls :
    calls[c].testConnection = "true" => calls[c].apiSucceeded

IsCommand(value) ==
  /\ value.type = "object"
  /\ Prop(value, "action").type = "string"
  /\ Prop(value, "action").v # ""
  /\ Prop(value, "parameters").type = "object"

IsBatchFormat(response) ==
  /\ response.type = "object"
  /\ Prop(response, "action") = JStr("__batch__")
  /\ IsArray(Prop(Prop(response, "parameters"), "actions"))
  /\ LET actions == Prop(Prop(response, "parameters"), "actions").v
     IN  \A i \in DOMAIN actions : IsCommand(actions[i])

\* C10: every response sendToModel returns is in batch format: action is
\* '__batch__' and parameters.actions is a list whose elements each have an
\* action name and a parameters object.
C10_AlwaysBatchFormat ==
  \A c \in Calls :
    calls[c].outcome.kind = "returned" => IsBatchFormat(calls[c].outcome.response)

\* the reply of a call came with a status other than FAILED and, fences
\* stripped and trimmed, is not JSON
Unparsable(call) ==
  /\ call.response.status = "COMPLETED"
  /\ JSONParse(StripMarkdown(call.response.content)) = SyntaxError

\* C19: a reply that is not FAILED and whose content, code fences stripped
\* and trimmed, is not valid JSON ends the call on that attempt: sendToModel
\* returns a batch with exactly one action 'unknown' whose parameters are the
\* request text as originalText, a reason and the content that failed to
\* parse as rawResponse; there is no retry, no delay after the reply and no
\* mock response.
C19_UnparsableReplyNotRetried ==
  \A c \in Calls :
    \A call \in {calls[c]} :
      Unparsable(call) =>
        /\ Finished(call)
        /\ call.apiSucceeded
        /\ call.outcome =
             Returned(JObj([action |-> JStr("__batch__"),
                            parameters |-> JObj([actions |-> JArr(<<
                              JObj([action |-> JStr("unknown"),
                                    parameters |-> JObj(
                                      [originalText |-> JStr(call.text),
                                       reason |-> JStr("Failed to parse AI response"),
                                       rawResponse |->
                                         JStr(StripMarkdown(call.response.content))])])>>)])]))
        /\ call.attempt <= MAX_RETRIES
        /\ Len(call.delays) = call.attempt

\* a fenced reply that is no JSON has ended a call on its second attempt
C19_Witness ==
  \E c \in Calls :
    /\ Unparsable(calls[c])
    /\ Finished(calls[c])
    /\ calls[c].response.content = FencedProseReply
    /\ calls[c].attempt = 1
    /\ calls[c].outcome.kind = "returned"

\* C20: with USE_MOCK false and no API key, sendToModel throws 'Backboard API
\* key not configured' before its first attempt: no SDK call, no delay, no
\* change of the cached assistant, thread and context hash, no mock response.
C20_NoKeyThrowsAtOnce ==
  (~USE_MOCK /\ ~apiKey) =>
    /\ \A c \in Calls :
         calls[c].pc # "idle" =>
           /\ Finished(calls[c])
           /\ calls[c].outcome = Thrown("Backboard API key not configured")
           /\ calls[c].attempt = 0
           /\ calls[c].requests = <<>>
           /\ calls[c].delays = <<>>
           /\ calls[c].assistantId = Null
           /\ calls[c].threadId = Null
    /\ assistants = <<>>
    /\ threads = <<>>
    /\ cachedAssistantId = Null
    /\ cachedThreadId = Null
    /\ cachedContextHash = Null

\* a call without an API key has thrown
C20_Witness ==
  /\ ~apiKey
  /\ \E c \in Calls :
       /\ calls[c].pc = "done"
       /\ calls[c].caller = "chat"
       /\ calls[c].outcome = Thrown("Backboard API key not configured")

\* the thread / assistant the SDK created under an id
CreatedThread(threadId) ==
  Only({threads[i] : i \in {j \in DOMAIN threads : threads[j].threadId = threadId}})
CreatedAssistant(assistantId) ==
  Only({assistants[i] :
          i \in {j \in DOMAIN assistants : assistants[j].assistantId = assistantId}})

\* the request went to a thread created from an assistant whose description
\* is the prompt, or a prompt with the same context hash
SentOnThreadOfPrompt(request, prompt) ==
  /\ \E i \in DOMAIN threads : threads[i].threadId = request.threadId
  /\ \E thread \in {CreatedThread(request.threadId)} :
       /\ \E i \in DOMAIN assistants : assistants[i].assistantId = thread.assistantId
       /\ \E assistant \in {CreatedAssistant(thread.assistantId)} :
            \/ assistant.description = prompt
            \/ hashContext(assistant.description) = hashContext(prompt)

C21_MessagesOnOwnThread ==
  \A c \in Calls :
    \A k \in DOMAIN calls[c].requests :
      SentOnThreadOfPrompt(calls[c].requests[k],
                           EffectiveSystemPrompt(calls[c].systemPrompt))

C21_DiscardedTogether ==
  \A c \in Calls :
    (/\ calls[c].pc = "getAssistant"
     /\ calls'[c].pc # "getAssistant"
     /\ cachedAssistantId # Null
     /\ cachedContextHash #
          hashContext(EffectiveSystemPrompt(calls[c].systemPrompt)))
    => /\ cachedAssistantId' = Null
       /\ cachedThreadId' = Null
       /\ calls'[c].pc = "createAssistant"

\* C21: when getAssistant is called with a prompt whose hash differs from
\* the cached context hash, the cached assistant and the cached thread are
\* discarded together, and in any sequential run every message of a call is
\* sent on a thread created from an assistant created with that call's
\* prompt (or one of the same hash), never on a thread of an earlier prompt,
\* also when a creation fails and is retried.
C21_CacheInvalidatedAsUnit ==
  /\ [](C21_MessagesOnOwnThread)
  /\ [][C21_DiscardedTogether]_vars

\* a second call with another prompt, after a failed attempt, sends its
\* message on the second thread, made from the second assistant
C21_Witness ==
  /\ Len(assistants) = 2
  /\ Len(threads) = 2
  /\ hashContext(assistants[1].description) # hashContext(assistants[2].description)
  /\ threads[1].assistantId = assistants[1].assistantId
  /\ threads[2].assistantId = assistants[2].assistantId
  /\ \E c \in Calls :
       /\ calls[c].pc = "addMessage"
       /\ calls[c].attempt >= 1
       /\ EffectiveSystemPrompt(calls[c].systemPrompt) = assistants[2].description
       /\ calls[c].requests[Len(calls[c].requests)].threadId = threads[2].threadId

\* the waits of a call so far are 1000 ms, then 2000 ms
C23_LinearDelays ==
  \A c \in Calls :
    /\ calls[c].delays \in {<<>>, <<1000>>, <<1000, 2000>>}
    /\ \A k \in DOMAIN calls[c].delays : calls[c].delays[k] = RETRY_DELAY_MS * k
    /\ (calls[c].pc = "sleep" =>
          /\ calls[c].attempt < MAX_RETRIES
          /\ Len(calls[c].delays) = calls[c].attempt + 1
          /\ ~IsAuthError(calls[c].lastError)
          /\ ~IsRateLimitError(calls[c].lastError))
    /\ (Finished(calls[c]) =>
          Len(calls[c].delays) = Min(calls[c].attempt, MAX_RETRIES))

\* a wait begins only where an attempt has failed, an attempt after the
\* first begins only where a wait ends, and a call ends without waiting
C23_WaitsOnlyBetweenAttempts ==
  \A c \in Calls :
    /\ (calls'[c].pc = "sleep" /\ calls[c].pc # "sleep") =>
          /\ calls[c].pc \in {"createAssistant", "createThread", "addMessage"}
          /\ calls'[c].delays =
               Append(calls[c].delays, RETRY_DELAY_MS * (calls[c].attempt + 1))
    /\ (calls'[c].pc # "sleep" /\ calls'[c].pc # "idle") =>
          calls'[c].delays = calls[c].delays
    /\ (calls'[c].pc = "getAssistant" /\ calls[c].pc # "getAssistant"
          /\ calls'[c].attempt >= 1) =>
          /\ calls[c].pc = "sleep"
          /\ calls'[c].attempt = calls[c].attempt + 1
          /\ calls[c].delays[Len(calls[c].delays)] = RETRY_DELAY_MS * calls'[c].attempt
    /\ (Finished(calls'[c]) /\ ~Finished(calls[c])) => calls[c].pc # "sleep"

\* C23: retry delays grow linearly and only separate attempts: after a
\* retried failure of attempt k (k = 1, 2) sendToModel waits RETRY_DELAY_MS * k
\* (1000 ms, then 2000 ms) before attempt k + 1; it does not wait after the
\* third failed attempt, before a throw on 401/403/429, or after a successful
\* attempt.
C23_RetryDelays ==
  /\ [](C23_LinearDelays)
  /\ [][C23_WaitsOnlyBetweenAttempts]_vars

\* the third attempt of a call begins after waits of 1000 ms and 2000 ms
C23_Witness ==
  \E c \in Calls :
    /\ calls[c].pc = "getAssistant"
    /\ calls[c].attempt = MAX_RETRIES
    /\ calls[c].delays = <<1000, 2000>>

C22_ConcurrentCacheConsistent ==
  /\ (cachedAssistantId # Null /\ cachedThreadId # Null) =>
       \E i \in DOMAIN threads :
         /\ threads[i].threadId = cachedThreadId
         /\ threads[i].assistantId = cachedAssistantId
  /\ \A c \in Calls :
       \A k \in DOMAIN calls[c].requests :
         SentOnThreadOfPrompt(calls[c].requests[k],
                              EffectiveSystemPrompt(calls[c].systemPrompt))

\* ------------------------------------------------------------------------
\* Properties of the panel's controls (SpecPanel)
\* ------------------------------------------------------------------------
C29_ControlsDisabled ==
  /\ isPending =>
       /\ SendDisabled
       /\ TextareaDisabled
       /\ ClearDisabled
       /\ \A canUndo \in BOOLEAN : UndoDisabled(canUndo)
  /\ \A s \in Sends : sends[s].pc \notin {"idle", "done"} => isPending
  /\ \A i \in DOMAIN panelActions : ~panelActions[i].pending

C29_NothingWhilePending ==
  isPending =>
    /\ panelActions' = panelActions
    /\ inputText' = inputText
    /\ Len(chatMessages') >= Len(chatMessages)
    /\ SubSeq(chatMessages', 1, Len(chatMessages)) = chatMessages

\* C29: while a chat request is pending the send button, the text input, the
\* undo button and the clear-history button are disabled, and a request is
\* pending from its start to the end of its batch execution, so that in
\* between no undo and no clearing of the history takes effect: the history
\* only grows and neither handler runs.
C29_NoActionWhilePending ==
  /\ [](C29_ControlsDisabled)
  /\ [][C29_NothingWhilePending]_vars

\* a batch is being executed for a pending request; the undo button was
\* used before the request began, and every control is disabled now
C29_Witness ==
  /\ isPending
  /\ SendDisabled
  /\ ClearDisabled
  /\ Len(chatMessages) > 0
  /\ panelActions = <<[handler |-> "handleUndo", pending |-> FALSE]>>
  /\ \E s \in Sends : sends[s].pc = "executeBatch"

\* ------------------------------------------------------------------------
\* Properties of the mock responder (SpecMock)
\* ------------------------------------------------------------------------
Mocked(call) == call.caller = "mock" /\ call.pc = "done"

IsSuggestRequest(text) ==
  \E lower \in {toLowerCase(text)} :
    includes(lower, "suggest") /\ (includes(lower, "clip") \/ includes(lower, "next"))

IsBeatRequest(text) ==
  \E lower \in {toLowerCase(text)} :
    includes(lower, "beat") /\ (includes(lower, "make") \/ includes(lower, "create"))

ActionsOf(response) == response.v.parameters.v.actions.v

IsPlacement(command, subcategory, trackIndex) ==
  /\ command.v.action = JStr("addAudioSample")
  /\ DOMAIN command.v.parameters.v = {"category", "subcategory", "trackIndex", "startTick"}
  /\ command.v.parameters.v.category = JStr("drums")
  /\ command.v.parameters.v.subcategory = JStr(subcategory)
  /\ command.v.parameters.v.trackIndex = JNum(trackIndex)

\* C26: for a text that contains 'beat' and 'make' or 'create' and is no
\* suggest-clip/next request, the mock response is a batch of exactly 49
\* actions: setBpm 90, then 8 kicks on track 0, 8 snares on track 1 and 32
\* hi-hats on track 2; every startTick is a multiple of 48 with
\* 0 <= startTick < 1536, and no (track, startTick) pair occurs twice.
C26_MockBeatLayout ==
  \A c \in Calls :
    (Mocked(calls[c]) /\ IsBeatRequest(calls[c].text)
       /\ ~IsSuggestRequest(calls[c].text)) =>
      \E actions \in {ActionsOf(calls[c].outcome.response)} :
        /\ calls[c].outcome.response.v.action = JStr("__batch__")
        /\ Len(actions) = 49
        /\ actions[1] = Command("setBpm", [bpm |-> JNum(90)])
        /\ \A i \in 2..9 : IsPlacement(actions[i], "kick", 0)
        /\ \A i \in 10..17 : IsPlacement(actions[i], "snare", 1)
        /\ \A i \in 18..49 : IsPlacement(actions[i], "hihat", 2)
        /\ \A i \in 2..49 :
             \E tick \in {actions[i].v.parameters.v.startTick.v} :
               /\ tick % 48 = 0
               /\ 0 <= tick
               /\ tick < 1536
        /\ \A i, j \in 2..49 :
             (i # j) =>
               <<actions[i].v.parameters.v.trackIndex, actions[i].v.parameters.v.startTick>>
                 # <<actions[j].v.parameters.v.trackIndex, actions[j].v.parameters.v.startTick>>

\* 'create Beat' has been answered with the 49 actions
C26_Witness ==
  \E c \in Calls :
    /\ Mocked(calls[c])
    /\ calls[c].text = "create Beat"
    /\ Len(ActionsOf(calls[c].outcome.response)) = 49

\* the parts a system prompt was put together from
PromptParts(systemPrompt) ==
  {parts \in TrackNumbers \X StartTicks \X (0..MaxPatterns) :
     IF systemPrompt = "" THEN parts = <<NoNumber, NoNumber, 0>>
     ELSE systemPrompt = SuggestionPrompt(parts[1], parts[2], parts[3])}

Suggested(call) == Mocked(call) /\ IsSuggestRequest(call.text)

UsesNewPattern(command) ==
  /\ "patternId" \in DOMAIN command.v.parameters.v
  /\ command.v.parameters.v.patternId = JStr("__NEW_PATTERN__")

\* C27: for a suggest-clip/next request the mock batch is exactly
\* addPattern, addNoteSequence, addClip in that order, so that addPattern
\* comes before every action whose patternId is '__NEW_PATTERN__'; the
\* clip's trackIndex is the track number found in the system prompt minus 1
\* (0 when none is found) and its startTick the startTick found in the
\* prompt (384 when none is found).
C27_SuggestionResolvable ==
  \A c \in Calls :
    Suggested(calls[c]) =>
      \E actions \in {ActionsOf(calls[c].outcome.response)} :
        /\ calls[c].outcome.response.v.action = JStr("__batch__")
        /\ [i \in DOMAIN actions |-> actions[i].v.action] =
             <<JStr("addPattern"), JStr("addNoteSequence"), JStr("addClip")>>
        /\ \A i \in DOMAIN actions :
             UsesNewPattern(actions[i]) =>
               \E j \in 1..(i - 1) : actions[j].v.action = JStr("addPattern")
        /\ UsesNewPattern(actions[2])
        /\ UsesNewPattern(actions[3])
        /\ PromptParts(calls[c].systemPrompt) # {}
        /\ \A parts \in PromptParts(calls[c].systemPrompt) :
             /\ actions[3].v.parameters.v.trackIndex =
                  JNum(IF parts[1] = NoNumber THEN 0 ELSE parts[1] - 1)
             /\ actions[3].v.parameters.v.startTick =
                  JNum(IF parts[2] = NoNumber THEN 384 ELSE parts[2])

\* a suggestion for track 12 at tick 768 puts its clip on track index 11
C27_Witness ==
  \E c \in Calls :
    /\ Suggested(calls[c])
    /\ calls[c].systemPrompt = SuggestionPrompt(12, 768, 1)
    /\ \E clip \in {ActionsOf(calls[c].outcome.response)[3]} :
         /\ clip.v.parameters.v.trackIndex = JNum(11)
         /\ clip.v.parameters.v.startTick = JNum(768)

\* C28: in a mock suggestion the variation index, the number of patterns
\* listed in the prompt modulo 3, selects one of the three note variations,
\* and every note of it has 0 <= startTick and startTick + durationTick <=
\* 768, which is the clip's durationTick (2 bars of 384 ticks) and the
\* pattern's length (32 steps of 24 ticks).
C28_NotesFitClip ==
  \A c \in Calls :
    Suggested(calls[c]) =>
      \E actions \in {ActionsOf(calls[c].outcome.response)} :
        \E notes \in {actions[2].v.parameters.v.notes.v} :
          /\ \A parts \in PromptParts(calls[c].systemPrompt) :
               /\ (parts[3] % 3) + 1 \in DOMAIN noteVariations
               /\ notes = noteVariations[(parts[3] % 3) + 1]
          /\ Len(notes) > 0
          /\ \A i \in DOMAIN notes :
               /\ 0 <= notes[i].v.startTick.v
               /\ notes[i].v.startTick.v + notes[i].v.durationTick.v <= 768
          /\ actions[3].v.parameters.v.durationTick = JNum(768)
          /\ 2 * 384 = 768
          /\ actions[1].v.parameters.v.lengthInSteps = JNum(32)
          /\ 32 * 24 = 768

\* with two patterns in the prompt the third variation, the rhythmic hits,
\* has been chosen
C28_Witness ==
  \E c \in Calls :
    /\ Suggested(calls[c])
    /\ calls[c].systemPrompt = SuggestionPrompt(NoNumber, NoNumber, 2)
    /\ ActionsOf(calls[c].outcome.response)[2].v.parameters.v.notes.v = noteVariations[3]

\* ------------------------------------------------------------------------
\* Properties of the chat panel (SpecChat)
\* ------------------------------------------------------------------------
InFlight(s) == sends[s].pc \notin {"idle", "done"}

\* the send that finished last
LastFinished(s) ==
  /\ sends[s].pc = "done"
  /\ \A t \in Sends : t > s => sends[t].pc # "done"

\* executeBatch was awaited and returned success = true
BatchSucceeded(s) ==
  /\ sends[s].executed = <<"executeBatch">>
  /\ Truthy(Prop(sends[s].result, "success"))

\* C11: after handleSend has processed a batch for which executeBatch returned
\* success = true with an undoGroupId g, the chat's last AI command id equals
\* g when handleSend finishes.
C11_UndoGroupTracked ==
  \A s \in Sends :
    (/\ LastFinished(s)
     /\ BatchSucceeded(s)
     /\ Truthy(Prop(sends[s].result, "undoGroupId")))
      => lastAICommandId = Prop(sends[s].result, "undoGroupId").v

\* executeBatch was awaited and returned success = false
BatchFailed(s) ==
  /\ sends[s].executed = <<"executeBatch">>
  /\ sends[s].result.type = "object"
  /\ ~Truthy(Prop(sends[s].result, "success"))

\* where the reply to the user message of a send stands in the chat log
ReplyIndex(s) == Len(sends[s].messages) + 2

\* C12: when executeBatch returns success = false, handleSend still finishes:
\* it appends the batch's message as the agent reply, with status 'sent' if
\* successCount > 0 and 'error' if successCount = 0, and clears the pending
\* state.
C12_PartialFailureReported ==
  \A s \in Sends :
    (sends[s].pc = "done" /\ BatchFailed(s)) =>
      /\ Len(chatMessages) >= ReplyIndex(s)
      /\ chatMessages[ReplyIndex(s)] =
           Message("agent", Prop(sends[s].result, "message").v,
                   IF Prop(sends[s].result, "successCount").v > 0
                     THEN "sent" ELSE "error")
      /\ (LastFinished(s) /\ \A t \in Sends : ~InFlight(t)) => ~isPending

\* a batch that failed in part has been reported as sent
C12_Witness ==
  \E s \in Sends :
    /\ sends[s].pc = "done"
    /\ BatchFailed(s)
    /\ Prop(sends[s].result, "successCount").v > 0
    /\ chatMessages[ReplyIndex(s)].status = "sent"
    /\ ~isPending

\* C15: isPending is true from the moment a send is accepted, so before its
\* request is issued, until the send finishes, and false once it has
\* finished, whichever way it ends; as the awaited calls complete, a pending
\* state is always followed by isPending = false.
C15_PendingLifecycle ==
  /\ [](isPending <=> \E s \in Sends : InFlight(s))
  /\ \A s \in Sends : InFlight(s) ~> (sends[s].pc = "done" /\ ~isPending)

\* a send whose command execution threw has finished and nothing is pending
C15_Witness ==
  \E s \in Sends :
    /\ sends[s].pc = "done"
    /\ sends[s].executed # <<>>
    /\ chatMessages[ReplyIndex(s)].status = "error"
    /\ includes(chatMessages[ReplyIndex(s)].text, "Failed to execute command")
    /\ ~isPending

\* C16: a call of handleSend while the trimmed input is empty or a request
\* is pending changes nothing: no message, no request, no command, and the
\* input text, the pending flag and the last AI command id stay as they are;
\* so at most one chat request is in flight at any time.
C16_NoOpWhenEmptyOrPending ==
  /\ [][(/\ handleSendCalls' # handleSendCalls
          /\ (trim(inputText) = "" \/ isPending))
         => UNCHANGED <<inputText, chatMessages, isPending, lastAICommandId, sends>>]_vars
  /\ [](Cardinality({s \in Sends : InFlight(s)}) <= 1)

\* handleSend has been called again while a request was in flight, and
\* nothing but that request's own message is in the log
C16_Witness ==
  \E s \in Sends :
    /\ InFlight(s)
    /\ sends[s].call < handleSendCalls
    /\ isPending
    /\ Len(chatMessages) = Len(sends[s].messages) + 1
    /\ \A t \in Sends \ {s} : ~InFlight(t)

\* C17: every accepted send appends exactly one user message, before its
\* request is issued, and then exactly one agent message, whichever way it
\* ends.
C17_OneUserOneAgent ==
  \A s \in Sends :
    /\ sends[s].pc # "idle" =>
         /\ Len(chatMessages) >= ReplyIndex(s) - 1
         /\ chatMessages[ReplyIndex(s) - 1] = Message("user", sends[s].userMessage, "sent")
    /\ InFlight(s) => Len(chatMessages) = ReplyIndex(s) - 1
    /\ (LastFinished(s) /\ \A t \in Sends : ~InFlight(t)) =>
         /\ Len(chatMessages) = ReplyIndex(s)
         /\ chatMessages[ReplyIndex(s)].from = "agent"

\* the /api/chat call of a send failed
ApiFailed(s) ==
  sends[s].failure \in {"fetch rejected", "status not OK", "success false"}

StartsWith(text, prefix) ==
  Len(text) >= Len(prefix) /\ SubSeq(text, 1, Len(prefix)) = prefix

\* C18: if the /api/chat call fails (fetch rejects, the status is not OK, or
\* the body has success = false), neither executeBatch nor executeCommand is
\* called, the last AI command id is unchanged, and exactly one agent message
\* is appended, with status 'error' and the text 'Failed to process your
\* request: ' followed by the error message.
C18_ApiFailureReported ==
  \A s \in Sends :
    (sends[s].pc = "done" /\ ApiFailed(s)) =>
      /\ sends[s].executed = <<>>
      /\ Len(sends[s].requests) = 1
      /\ Len(chatMessages) >= ReplyIndex(s)
      /\ chatMessages[ReplyIndex(s)].from = "agent"
      /\ chatMessages[ReplyIndex(s)].status = "error"
      /\ StartsWith(chatMessages[ReplyIndex(s)].text, "Failed to process your request: ")
      /\ Len(chatMessages[ReplyIndex(s)].text) > Len("Failed to process your request: ")
      /\ sends[s].failure = "fetch rejected" =>
           chatMessages[ReplyIndex(s)].text = "Failed to process your request: Failed to fetch"
      /\ LastFinished(s) =>
           /\ lastAICommandId = sends[s].lastBefore
           /\ (\A t \in Sends : ~InFlight(t)) => Len(chatMessages) = ReplyIndex(s)

\* a request answered with status 500 and no error text has been reported
C18_Witness ==
  \E s \in Sends :
    /\ sends[s].pc = "done"
    /\ sends[s].failure = "status not OK"
    /\ sends[s].executed = <<>>
    /\ chatMessages[ReplyIndex(s)] =
         Message("agent", "Failed to process your request: API error: 500", "error")

\* executeBatch returned success = false, or success = true without an
\* undoGroupId
NothingToUndo(s) ==
  /\ sends[s].executed = <<"executeBatch">>
  /\ sends[s].result.type = "object"
  /\ \/ ~Truthy(Prop(sends[s].result, "success"))
     \/ ~Truthy(Prop(sends[s].result, "undoGroupId"))

\* C30: a batch that did not fully succeed is not recorded for undo: when
\* executeBatch returns success = false (also with successCount > 0), or
\* success = true without an undoGroupId, handleSend leaves the chat's last
\* AI command id as it was when the send began.
C30_FailedBatchNotRecorded ==
  \A s \in Sends :
    (LastFinished(s) /\ NothingToUndo(s)) => lastAICommandId = sends[s].lastBefore

\* after a batch recorded as group-1, a batch that failed with one success
\* and an undo group of its own has left group-1 in place
C30_Witness ==
  \E s \in Sends :
    /\ LastFinished(s)
    /\ sends[s].result = BatchResult(FALSE, JStr("group-2"), 1)
    /\ sends[s].lastBefore = "group-1"
    /\ lastAICommandId = "group-1"

====
